---- MODULE Spec2Model ----
(***************************************************************************)
(* A model of skaffold's pipeline engine: the dev loop of SkaffoldRunner   *)
(* (Dev, its change handlers and its on-tick callback), the poll loop of   *)
(* the watch registry (watchList.Run) and the port-forwarder.              *)
(***************************************************************************)
EXTENDS Integers, Sequences, FiniteSets, TLC

(***************************************************************************)
(* Bounds of the model.                                                    *)
(***************************************************************************)
\* ticks of the poll loop that a behaviour may start
MaxTicks == 2
\* writes and removals of watched files during a behaviour
MaxChanges == 2
\* pod events that the port-forwarder forwards during a behaviour
MaxForwards == 2
\* the resource versions of a pod are 1..MaxResourceVersion
MaxResourceVersion == 2
\* documents of a manifest list given to the manifest transformer
MaxManifests == 3

\* the deployed objects that the labeler is given
MaxObjects == 3

(***************************************************************************)
(* The session's configuration: the artifacts, the deployer's manifest and *)
(* the skaffold configuration file.                                        *)
(***************************************************************************)
ImageName == <<"web", "db">>

Artifacts == 1..Len(ImageName)

\* dependenciesForArtifact(artifact): the files an artifact is built from
ArtifactDeps == <<{"a.js", "b.js"}, {"c.js"}>>

\* r.Dependencies(): the deployer's manifests
DeployerDeps == {"k8s.yaml"}

\* r.opts.ConfigurationFile
ConfigurationFile == "skaffold.yaml"

\* every watched path, in the order in which an event lists paths
AllPaths == <<"a.js", "b.js", "c.js", "k8s.yaml", "skaffold.yaml">>

PathSet == {AllPaths[i] : i \in 1..Len(AllPaths)}

\* the sync pattern lists an artifact may be configured with: none, one
\* pattern, two patterns, a malformed pattern
SyncChoices == {<<>>, <<"a.*">>, <<"*.js", "a.*">>, <<"[">>}

\* The configurations of a session, [sync, watch]: artifact.Sync of every
\* artifact and the --watch filter. The first artifact takes every choice of
\* sync patterns beside a second artifact whose file matches no pattern; then
\* two artifacts that both sync; then a filter that leaves out the second one;
\* then a filter of two expressions, of which the second one selects the
\* second artifact and neither selects the first.
Configs ==
  {[sync |-> <<s, <<"a.*">>>>, watch |-> <<>>] : s \in SyncChoices}
    \cup {[sync |-> <<<<"a.*">>, <<"*.js">>>>, watch |-> <<>>],
          [sync |-> <<<<"a.*">>, <<"a.*">>>>, watch |-> <<"eb">>],
          [sync |-> <<<<"a.*">>, <<"a.*">>>>, watch |-> <<"js", "db">>]}

\* the characters of the strings that the model matches against each other
Chars ==
  ("a.js" :> <<"a", ".", "j", "s">>) @@
  ("b.js" :> <<"b", ".", "j", "s">>) @@
  ("c.js" :> <<"c", ".", "j", "s">>) @@
  ("k8s.yaml" :> <<"k", "8", "s", ".", "y", "a", "m", "l">>) @@
  ("skaffold.yaml" :> <<"s", "k", "a", "f", "f", "o", "l", "d", ".", "y", "a", "m", "l">>) @@
  ("*.js" :> <<"*", ".", "j", "s">>) @@
  ("a.*" :> <<"a", ".", "*">>) @@
  ("[" :> <<"[">>) @@
  ("web" :> <<"w", "e", "b">>) @@
  ("db" :> <<"d", "b">>) @@
  ("eb" :> <<"e", "b">>) @@
  ("js" :> <<"j", "s">>)

(***************************************************************************)
(* Sequences.                                                              *)
(***************************************************************************)
Range(s) == {s[i] : i \in 1..Len(s)}

\* the members of S in the order of AllPaths
PathSeq(S) == SelectSeq(AllPaths, LAMBDA p : p \in S)

Drop(s, k) == SubSeq(s, k + 1, Len(s))

(***************************************************************************)
(* filepath.Match, for patterns made of literals, '?', '*' and an opening  *)
(* '[' that is never closed (ErrBadPattern). "true", "false" or "bad".     *)
(***************************************************************************)
RECURSIVE GlobMatch(_, _)
GlobMatch(p, s) ==
  IF p = <<>> THEN (IF s = <<>> THEN "true" ELSE "false")
  ELSE IF Head(p) = "*" THEN
    LET \* a star matches any run of characters other than the separator
        ks == {k \in 0..Len(s) : \A j \in 1..k : s[j] # "/"}
        rs == {GlobMatch(Tail(p), Drop(s, k)) : k \in ks}
    IN  IF "true" \in rs THEN "true" ELSE IF "bad" \in rs THEN "bad" ELSE "false"
  ELSE IF Head(p) = "[" THEN "bad"
  ELSE IF s = <<>> THEN "false"
  ELSE IF Head(p) = "?" THEN
    (IF Head(s) # "/" THEN GlobMatch(Tail(p), Tail(s)) ELSE "false")
  ELSE IF Head(p) = Head(s) THEN GlobMatch(Tail(p), Tail(s))
  ELSE "false"

filepathMatch(pattern, name) == GlobMatch(Chars[pattern], Chars[name])

\* strings.Contains(s, substr)
stringsContains(s, substr) ==
  LET cs == Chars[s]
      cu == Chars[substr]
  IN  \E i \in 0..(Len(cs) - Len(cu)) : SubSeq(cs, i + 1, i + Len(cu)) = cu

(***************************************************************************)
(* WatchEvents and file snapshots.                                         *)
(***************************************************************************)
\* WatchEvents.HasChanged
HasChanged(e) == Len(e.Added) + Len(e.Modified) + Len(e.Deleted) > 0

\* stat(deps): the modification time of every path of deps, 0 when absent
statFiles(files, deps) == [p \in deps |-> IF files[p] > 0 THEN files[p] ELSE 0]

\* events(prev, cur): the diff of two snapshots of the same dependency set
events(prev, cur) ==
  [Added    |-> PathSeq({p \in DOMAIN cur : prev[p] = 0 /\ cur[p] # 0}),
   Modified |-> PathSeq({p \in DOMAIN cur : prev[p] # 0 /\ cur[p] # 0 /\ prev[p] # cur[p]}),
   Deleted  |-> PathSeq({p \in DOMAIN cur : prev[p] # 0 /\ cur[p] = 0})]

(***************************************************************************)
(* The runner's pure functions.                                            *)
(***************************************************************************)
\* one file against the patterns, in order: "true", "false" or "bad"
RECURSIVE matchPatterns(_, _)
matchPatterns(patterns, f) ==
  IF patterns = <<>> THEN "true"
  ELSE LET m == filepathMatch(Head(patterns), f)
       IN  IF m = "bad" THEN "bad"
           ELSE IF m = "false" THEN "false"
           ELSE matchPatterns(Tail(patterns), f)

\* match(patterns, files): [ok, err]
RECURSIVE match(_, _)
match(patterns, files) ==
  IF files = <<>> THEN [ok |-> TRUE, err |-> FALSE]
  ELSE LET m == matchPatterns(patterns, Head(files))
       IN  IF m = "bad" THEN [ok |-> FALSE, err |-> TRUE]
           ELSE IF m = "false" THEN [ok |-> FALSE, err |-> FALSE]
           ELSE match(patterns, Tail(files))

\* shouldSync(syncPatterns, e): [ok, err]
shouldSync(syncPatterns, e) ==
  IF ~HasChanged(e) THEN [ok |-> FALSE, err |-> FALSE]
  ELSE LET isCopySyncable == match(syncPatterns, e.Added \o e.Modified)
           isDeleteSyncable == match(syncPatterns, e.Deleted)
       IN  IF isCopySyncable.err THEN [ok |-> FALSE, err |-> TRUE]
           ELSE IF ~isCopySyncable.ok THEN [ok |-> FALSE, err |-> FALSE]
           ELSE IF ~isDeleteSyncable.ok THEN [ok |-> FALSE, err |-> FALSE]
           ELSE [ok |-> TRUE, err |-> FALSE]

\* A filter that only looks at its first expression; WatchFilter tells it from
\* shouldWatch.
shouldWatchFirstExpression(watch, a) ==
  \/ Len(watch) = 0
  \/ stringsContains(ImageName[a], watch[1])

\* r.shouldWatch(artifact)
shouldWatch(watch, a) ==
  \/ Len(watch) = 0
  \/ \E i \in 1..Len(watch) : stringsContains(ImageName[a], watch[i])

\* A merge that forgets the previous builds; DeployInputIsMerge tells it from
\* mergeWithPreviousBuilds.
mergeDroppingPrevious(bs, previous) == bs

\* A merge that keeps every previous build; OneEntryPerImage tells it from
\* mergeWithPreviousBuilds.
mergeKeepingPrevious(bs, previous) == bs \o previous

\* mergeWithPreviousBuilds(builds, previous)
mergeWithPreviousBuilds(bs, previous) ==
  LET updatedBuilds == {bs[i].ImageName : i \in 1..Len(bs)}
  IN  bs \o SelectSeq(previous, LAMBDA b : b.ImageName \notin updatedBuilds)

\* An updateBuiltImages that makes the image list the tags of the new table;
\* ImageListOnlyGrows tells it from updateBuiltImages.
updateBuiltImagesCurrentTagsOnly(images, prevBuilds, bRes) ==
  LET merged == mergeWithPreviousBuilds(bRes, prevBuilds)
  IN  [images |-> {merged[i].Tag : i \in 1..Len(merged)}, builds |-> merged]

\* r.updateBuiltImages(images, bRes): the new image list and the new r.builds
updateBuiltImages(images, prevBuilds, bRes) ==
  [images |-> images \cup {bRes[i].Tag : i \in 1..Len(bRes)},
   builds |-> mergeWithPreviousBuilds(bRes, prevBuilds)]

\* Builder.Build on success: one result per artifact, in order, newly tagged
BuildResults(arts, n) ==
  [i \in 1..Len(arts) |-> [ImageName |-> ImageName[arts[i]], Tag |-> <<ImageName[arts[i]], n>>]]

(***************************************************************************)
(* The state.                                                              *)
(***************************************************************************)
VARIABLES
  cfg,         \* [sync, watch]: artifact.Sync of every artifact and r.opts.Watch
  fs,          \* the watched files: path -> modification time t, or -t for a
               \* file that was removed when its modification time was t
  clock,       \* 1 + the changes of watched files so far
  ctxDone,     \* the session context is cancelled
  pc,          \* where Dev is
  regIdx,      \* Dev: the next component to register
  watchList,   \* the registered components with their snapshots
  compIdx,     \* Run: the component that the tick looks at next
  changedCnt,  \* Run: changed
  changed,     \* Dev: the change accumulator
  hasError,    \* onChange: hasError
  builds,      \* r.builds, the latest-known build table
  imageList,   \* the tags of the image list
  logger,      \* the log aggregator: [started, muted, stopped]
  pfStarted,   \* Dev has started the port-forwarder
  nextTag,     \* the tag that the next build gives
  devRet,      \* what Dev returned: [state, err, cause]
  ticks,       \* ticks started so far
  nBuilds,     \* calls of the builder so far
  nDeploys,    \* calls of the deployer so far
  firstRun,    \* how the first run went: "none", "buildErr", "deployErr", "ok"
  tk,          \* what the current tick (or else the last one) has done so far
  pfMain,        \* the goroutine of PortForwarder.Start: "running", "done" (the
                 \* watch was closed), "cleaned" (after cleanupPorts), "panic"
  pfCtxDone,     \* the context of the port-forwarder is cancelled
  forwardedPods, \* p.forwardedPods: key -> the entry stored, None when none
  entries,       \* for every goroutine, the entry it makes for each port of
                 \* its pod: [proc, signalled, status]
  gor,           \* the goroutines that run portForwardPod: [pod,
                 \* resourceVersion, i, at, prev, err, evt]
  pfSkipped,     \* why Start did not forward the last event that it did not
                 \* forward: "type", "selector", "phase", "deleting"; "none"
  mf,            \* the manifest transformer: [pc, fromReader, stream, manifests,
                 \* builds, out, again]
  tail,          \* r.opts.Tail
  lb             \* the labeler: [pc, kinds, res, i, att, warned]

\* the files and the context
envVars == <<fs, clock, ctxDone>>

\* the registry
regVars == <<regIdx, watchList>>

\* the loop of a tick
loopVars == <<compIdx, changedCnt>>

\* the build table and the image list
buildVars == <<builds, imageList, nextTag>>

\* the counters of the session
countVars == <<ticks, nBuilds, nDeploys>>

devVars ==
  <<cfg, envVars, pc, regVars, loopVars, changed, hasError, buildVars, logger,
    pfStarted, devRet, countVars, firstRun, tk>>

pfVars == <<pfMain, pfCtxDone, forwardedPods, entries, gor, pfSkipped>>

mfVars == <<mf>>

\* the option that only Run reads
runVars == <<tail>>

lbVars == <<lb>>

\* the variables that the dev session leaves alone
notDevVars == <<pfVars, mfVars, runVars, lbVars>>

\* the variables that the port-forwarder leaves alone
notPfVars == <<devVars, mfVars, runVars, lbVars>>

\* the variables that the manifest transformer leaves alone
notMfVars == <<devVars, pfVars, runVars, lbVars>>

\* the variables of the other components, which Run leaves alone
notRunVars == <<pfVars, mfVars, lbVars>>

\* the variables that the labeler leaves alone
notLbVars == <<devVars, pfVars, mfVars, runVars>>

vars == <<devVars, pfVars, mfVars, runVars, lbVars>>

NoChanges == [dirtyArtifacts |-> <<>>, needsRedeploy |-> FALSE, needsReload |-> FALSE]

Running == [state |-> "running", err |-> "nil", cause |-> "nil"]

\* errors.Wrap(cause, msg) returned by Dev
Returned(msg, cause) == [state |-> "returned", err |-> msg, cause |-> cause]

\* The record of a tick: its number; the components whose handler fired, in
\* order, each with its event and the error that the handler returned; whether
\* a stat of the tick failed; the syncer's calls; the artifacts whose handler
\* synced and those whose handler called changes.Add; whether onChange has
\* started, how many times, and the accumulator it then read; the calls of the
\* builder and the deployer with their arguments; r.builds and the image list
\* before the tick; the result of the tick's build; how onChange ended and
\* what it returned; how the tick before ended; whether the context was
\* cancelled while the tick was under way; the paths that have changed since
\* the tick; the paths that changed between the tick before and the tick; the
\* snapshots of the components when the tick started; the components whose
\* handler returned an error in the tick before; whether the log aggregator
\* was muted when the tick started; the result of the build of the tick
\* before.
NoTick ==
  [n |-> 0, fired |-> <<>>, statErr |-> FALSE, syncCalls |-> <<>>, synced |-> {},
   dirtied |-> {}, ran |-> FALSE, runs |-> 0, seen |-> NoChanges, calls |-> <<>>, prev |-> <<>>,
   prevImages |-> {}, bRes |-> <<>>,
   outcome |-> "none", ret |-> "none", before |-> "none", cancelled |-> FALSE,
   pending |-> {}, touched |-> {}, states |-> <<>>, prevErr |-> {},
   wasMuted |-> FALSE, prevBRes |-> <<>>]

\* Dev is called with the watched files in the state files
InitSession(files) ==
  /\ cfg \in Configs
  /\ fs = files
  /\ clock = 1
  /\ ctxDone = FALSE
  /\ pc = "register"
  /\ regIdx = 1
  /\ watchList = <<>>
  /\ compIdx = 0
  /\ changedCnt = 0
  /\ changed = NoChanges
  /\ hasError = FALSE
  /\ builds = <<>>
  /\ imageList = {}
  /\ logger = [started |-> FALSE, muted |-> FALSE, stopped |-> FALSE]
  /\ pfStarted = FALSE
  /\ nextTag = 1
  /\ devRet = Running
  /\ ticks = 0
  /\ nBuilds = 0
  /\ nDeploys = 0
  /\ firstRun = "none"
  /\ tk = NoTick

\* every watched file exists
InitDev == InitSession([p \in PathSet |-> 1])

(***************************************************************************)
(* The environment: watched files change, the context is cancelled.        *)
(* Every file belongs to one component, and Dev reads it once when it      *)
(* registers the component and once in every tick, when the tick stats the *)
(* component. A change of a file during a tick is therefore the same       *)
(* change either before or after that tick, and a change before the poll   *)
(* loop is a change before the first tick (or, before the registration,    *)
(* no change that Dev can see): the files change between two ticks. Dev    *)
(* reads the context between two ticks only, but a tick that is under way  *)
(* when the context is cancelled is a case of its own.                     *)
(***************************************************************************)
FilesRead == pc = "select"

InPollLoop == pc \in {"select", "stat", "onTick", "building", "deploying"}

WriteFile(p) ==
  /\ FilesRead
  /\ clock <= MaxChanges
  /\ fs' = [fs EXCEPT ![p] = (IF @ > 0 THEN @ ELSE -@) + 1]
  /\ clock' = clock + 1
  /\ tk' = [tk EXCEPT !.pending = @ \cup {p}]
  /\ UNCHANGED <<notDevVars, cfg, ctxDone, pc, regVars, loopVars, changed, hasError, buildVars,
                 logger, pfStarted, devRet, countVars, firstRun>>

RemoveFile(p) ==
  /\ FilesRead
  /\ clock <= MaxChanges
  /\ fs[p] > 0
  /\ fs' = [fs EXCEPT ![p] = -@]
  /\ clock' = clock + 1
  /\ tk' = [tk EXCEPT !.pending = @ \cup {p}]
  /\ UNCHANGED <<notDevVars, cfg, ctxDone, pc, regVars, loopVars, changed, hasError, buildVars,
                 logger, pfStarted, devRet, countVars, firstRun>>

Cancel ==
  /\ InPollLoop
  /\ ~ctxDone
  /\ ctxDone' = TRUE
  /\ tk' = [tk EXCEPT !.cancelled = (pc # "select")]
  /\ UNCHANGED <<notDevVars, cfg, fs, clock, pc, regVars, loopVars, changed, hasError, buildVars,
                 logger, pfStarted, devRet, countVars, firstRun>>

(***************************************************************************)
(* The change accumulator and the change handlers that Dev registers.      *)
(***************************************************************************)
\* changes.Add(artifact)
changesAdd(ch, a) == [ch EXCEPT !.dirtyArtifacts = Append(@, a)]

\* changes.reset()
changesReset(ch) == NoChanges

\* A change handler that syncs and also calls changes.Add;
\* SyncOnlyTickBuildsNothing tells it from ArtifactHandler.
ArtifactHandlerSyncAndAdd(a, e, ch, copyOk, delOk) ==
  LET sync == shouldSync(cfg.sync[a], e)
      copy == [op |-> "copy", image |-> ImageName[a], files |-> e.Added \o e.Modified]
      del  == [op |-> "delete", image |-> ImageName[a], files |-> e.Deleted]
  IN  IF sync.err THEN
        [changed |-> ch, calls |-> <<>>, err |-> "checking sync files", synced |-> FALSE]
      ELSE IF sync.ok THEN
        [changed |-> [ch EXCEPT !.dirtyArtifacts = Append(@, a)], calls |-> <<copy, del>>,
         err |-> "nil", synced |-> copyOk /\ delOk]
      ELSE
        [changed |-> [ch EXCEPT !.dirtyArtifacts = Append(@, a)], calls |-> <<>>,
         err |-> "nil", synced |-> FALSE]

\* The change handler of artifact a, called with the event e while the change
\* accumulator is ch; copyOk and delOk are the outcomes of the syncer's calls.
\* [changed, calls, err, synced]: the accumulator afterwards, the syncer's calls,
\* the error returned, and whether the files were synced.
ArtifactHandler(a, e, ch, copyOk, delOk) ==
  LET sync == shouldSync(cfg.sync[a], e)
      copy == [op |-> "copy", image |-> ImageName[a], files |-> e.Added \o e.Modified]
      del  == [op |-> "delete", image |-> ImageName[a], files |-> e.Deleted]
  IN  IF sync.err THEN
        [changed |-> ch, calls |-> <<>>, err |-> "checking sync files", synced |-> FALSE]
      ELSE IF sync.ok THEN
        IF ~copyOk THEN
          [changed |-> ch, calls |-> <<copy>>, err |-> "copying files", synced |-> FALSE]
        ELSE IF ~delOk THEN
          [changed |-> ch, calls |-> <<copy, del>>, err |-> "deleting files", synced |-> FALSE]
        ELSE
          [changed |-> ch, calls |-> <<copy, del>>, err |-> "nil", synced |-> TRUE]
      ELSE
        [changed |-> changesAdd(ch, a), calls |-> <<>>, err |-> "nil", synced |-> FALSE]

\* The change handler of the deployer's dependencies.
DeployerHandler(ch) == [ch EXCEPT !.needsRedeploy = TRUE]

\* The change handler of the skaffold configuration file.
ConfigHandler(ch) == [ch EXCEPT !.needsReload = TRUE]

\* the dependencies of a registered component
DepsOf(c) ==
  CASE c.kind = "artifact" -> ArtifactDeps[c.art]
    [] c.kind = "deployer" -> DeployerDeps
    [] c.kind = "config"   -> {ConfigurationFile}

Component(kind, a) ==
  [kind |-> kind, art |-> a, state |-> statFiles(fs, DepsOf([kind |-> kind, art |-> a]))]

(***************************************************************************)
(* Dev before the poll loop: registrations, first build, first deploy.     *)
(***************************************************************************)
\* A Dev that goes on to the next registration when one has failed;
\* RegisteredThenBuiltThenStarted tells it from Register.
RegisterSkippedOnError(kind, a, statOk, msg) ==
  /\ watchList' = IF statOk THEN Append(watchList, Component(kind, a)) ELSE watchList
  /\ regIdx' = regIdx + 1
  /\ pc' = IF kind = "config" THEN "firstBuild" ELSE pc
  /\ UNCHANGED devRet

\* watchList.Register: stat the dependencies, append the component
Register(kind, a, statOk, msg) ==
  IF statOk
  THEN /\ watchList' = Append(watchList, Component(kind, a))
       /\ regIdx' = regIdx + 1
       /\ pc' = IF kind = "config" THEN "firstBuild" ELSE pc
       /\ UNCHANGED devRet
  ELSE /\ devRet' = Returned(msg, "listing files")
       /\ pc' = "returned"
       /\ UNCHANGED <<watchList, regIdx>>

RegisterArtifact ==
  /\ pc = "register"
  /\ regIdx \in Artifacts
  /\ IF ~shouldWatch(cfg.watch, regIdx)
     THEN /\ regIdx' = regIdx + 1
          /\ UNCHANGED <<watchList, pc, devRet>>
     ELSE \E statOk \in BOOLEAN :
            Register("artifact", regIdx, statOk, "watching files for artifact")
  /\ UNCHANGED <<notDevVars, cfg, envVars, loopVars, changed, hasError, buildVars, logger,
                 pfStarted, countVars, firstRun, tk>>

RegisterDeployer ==
  /\ pc = "register"
  /\ regIdx = Len(ImageName) + 1
  /\ \E statOk \in BOOLEAN : Register("deployer", 0, statOk, "watching files for deployer")
  /\ UNCHANGED <<notDevVars, cfg, envVars, loopVars, changed, hasError, buildVars, logger,
                 pfStarted, countVars, firstRun, tk>>

RegisterConfig ==
  /\ pc = "register"
  /\ regIdx = Len(ImageName) + 2
  /\ \E statOk \in BOOLEAN : Register("config", 0, statOk, "watching skaffold configuration")
  /\ UNCHANGED <<notDevVars, cfg, envVars, loopVars, changed, hasError, buildVars, logger,
                 pfStarted, countVars, firstRun, tk>>

\* the artifacts of the session, in list order
AllArtifacts == [i \in Artifacts |-> i]

\* A Dev that goes on after a failed first run; FirstRunIsFatal tells it from
\* FirstRunFailed.
FirstRunGoesOn(msg, cause) ==
  /\ pc' = "startLogger"
  /\ UNCHANGED devRet

\* Dev returns the error of the first build or of the first deploy
FirstRunFailed(msg, cause) ==
  /\ devRet' = Returned(msg, cause)
  /\ pc' = "returned"

\* First run: r.Build of every artifact, then r.updateBuiltImages
FirstBuild ==
  /\ pc = "firstBuild"
  /\ nBuilds' = nBuilds + 1
  /\ \E ok \in BOOLEAN :
       IF ok
       THEN LET bRes == BuildResults(AllArtifacts, nextTag)
                u == updateBuiltImages(imageList, builds, bRes)
            IN  /\ imageList' = u.images
                /\ builds' = u.builds
                /\ nextTag' = nextTag + 1
                /\ pc' = "firstDeploy"
                /\ UNCHANGED <<devRet, firstRun>>
       ELSE /\ FirstRunFailed("exiting dev mode because the first build failed", "build")
            /\ firstRun' = "buildErr"
            /\ UNCHANGED buildVars
  /\ UNCHANGED <<notDevVars, cfg, envVars, regVars, loopVars, changed, hasError, logger,
                 pfStarted, ticks, nDeploys, tk>>

\* First run: r.Deploy of r.builds
FirstDeploy ==
  /\ pc = "firstDeploy"
  /\ nDeploys' = nDeploys + 1
  /\ \E ok \in BOOLEAN :
       IF ok
       THEN /\ pc' = "startLogger"
            /\ firstRun' = "ok"
            /\ UNCHANGED devRet
       ELSE /\ FirstRunFailed("exiting dev mode because the first deploy failed", "deploy")
            /\ firstRun' = "deployErr"
  /\ UNCHANGED <<notDevVars, cfg, envVars, regVars, loopVars, changed, hasError, buildVars,
                 logger, pfStarted, ticks, nBuilds, tk>>

\* logger.Start, then portForwarder.Start (which returns no error)
StartLogs ==
  /\ pc = "startLogger"
  /\ \E ok \in BOOLEAN :
       IF ok
       THEN /\ logger' = [logger EXCEPT !.started = TRUE]
            /\ pfStarted' = TRUE
            /\ pc' = "select"
            /\ UNCHANGED devRet
       ELSE /\ devRet' = Returned("starting logger", "logger")
            /\ pc' = "returned"
            /\ UNCHANGED <<logger, pfStarted>>
  /\ UNCHANGED <<notDevVars, cfg, envVars, regVars, loopVars, changed, hasError, buildVars,
                 countVars, firstRun, tk>>

(***************************************************************************)
(* The poll loop, watchList.Run.                                           *)
(***************************************************************************)
\* case <-ctx.Done(): return nil
\* A Run that also reads ctx.Done() in the middle of a tick;
\* CancelBetweenTicks tells it from CtxDoneRead.
CtxDoneReadAnywhere == {"select", "stat", "onTick", "building", "deploying"}

\* where Run reads ctx.Done(): at the select of its loop
CtxDoneRead == {"select"}

RunCtxDone ==
  /\ pc \in CtxDoneRead
  /\ ctxDone
  /\ devRet' = Returned("nil", "nil")
  /\ pc' = "returned"
  /\ UNCHANGED <<notDevVars, cfg, envVars, regVars, loopVars, changed, hasError, buildVars,
                 logger, pfStarted, countVars, firstRun, tk>>

\* case <-ticker.C: a tick starts
TickStart ==
  /\ pc = "select"
  /\ ticks < MaxTicks
  /\ ticks' = ticks + 1
  /\ compIdx' = 1
  /\ changedCnt' = 0
  /\ pc' = "stat"
  /\ tk' = [NoTick EXCEPT !.n = ticks + 1, !.prev = builds, !.prevImages = imageList,
                      !.before = tk.outcome, !.touched = tk.pending,
                      !.states = [i \in 1..Len(watchList) |-> watchList[i].state],
                      !.prevErr = {tk.fired[i].idx : i \in {j \in 1..Len(tk.fired) :
                                                             tk.fired[j].err # "nil"}},
                      !.wasMuted = logger.muted, !.prevBRes = tk.bRes]
  /\ UNCHANGED <<notDevVars, cfg, envVars, regVars, changed, hasError, buildVars, logger,
                 pfStarted, devRet, nBuilds, nDeploys, firstRun>>

\* what the change handler of component c does with the event e
HandlerResult(c, e, ch, copyOk, delOk) ==
  CASE c.kind = "artifact" -> ArtifactHandler(c.art, e, ch, copyOk, delOk)
    [] c.kind = "deployer" ->
         [changed |-> DeployerHandler(ch), calls |-> <<>>, err |-> "nil", synced |-> FALSE]
    [] c.kind = "config" ->
         [changed |-> ConfigHandler(ch), calls |-> <<>>, err |-> "nil", synced |-> FALSE]

\* A Run that calls the on-tick callback in every tick; OnTickOncePerTick
\* tells it from AfterComponents.
AfterComponentsAlways(idx, cnt) ==
  IF idx <= Len(watchList) THEN "stat" ELSE "onTick"

\* A Run that calls the on-tick callback as soon as one handler has fired;
\* HandlersInOrderBeforeOnTick tells it from AfterComponents.
AfterComponentsEager(idx, cnt) ==
  IF cnt > 0 THEN "onTick" ELSE IF idx <= Len(watchList) THEN "stat" ELSE "select"

\* after the last component: the on-tick callback runs if a component changed
AfterComponents(idx, cnt) ==
  IF idx <= Len(watchList) THEN "stat" ELSE IF cnt > 0 THEN "onTick" ELSE "select"

\* A Run that skips a component whose stat fails; ListingErrorEndsRun tells it
\* from ListingFailed.
ListingFailureSkipped ==
  /\ compIdx' = compIdx + 1
  /\ pc' = AfterComponents(compIdx + 1, changedCnt)
  /\ tk' = [tk EXCEPT !.statErr = TRUE]
  /\ UNCHANGED <<watchList, changedCnt, changed, devRet>>

\* Run: stat(component.deps) returns an error
ListingFailed ==
  /\ devRet' = Returned("listing files", "listing files")
  /\ pc' = "returned"
  /\ tk' = [tk EXCEPT !.statErr = TRUE]
  /\ UNCHANGED <<watchList, compIdx, changedCnt, changed>>

\* A Run that keeps the old snapshot of a component whose handler has fired;
\* CoalescedToNetDiff tells it from SnapshotAfter.
SnapshotKept(prev, state, err) == prev

\* A Run that keeps the old snapshot of a component whose handler has returned
\* an error; HandlerErrorStillCounts tells it from SnapshotAfter.
SnapshotKeptOnError(prev, state, err) == IF err # "nil" THEN prev ELSE state

\* component.state = state, after a handler that returned err
SnapshotAfter(prev, state, err) == state

\* one iteration of the loop over the components
ProcessComponent ==
  /\ pc = "stat"
  /\ compIdx <= Len(watchList)
  /\ \E statOk, copyOk, delOk \in BOOLEAN :
       LET c == watchList[compIdx]
           state == statFiles(fs, DepsOf(c))
           e == events(c.state, state)
           h == HandlerResult(c, e, changed, copyOk, delOk)
       IN  IF ~statOk THEN ListingFailed
           ELSE IF HasChanged(e) THEN
             /\ changed' = h.changed
             /\ watchList' = [watchList EXCEPT ![compIdx].state = SnapshotAfter(@, state, h.err)]
             /\ changedCnt' = changedCnt + 1
             /\ compIdx' = compIdx + 1
             /\ pc' = AfterComponents(compIdx + 1, changedCnt + 1)
             /\ tk' = [tk EXCEPT
                         !.fired = Append(@, [idx |-> compIdx, e |-> e, err |-> h.err]),
                         !.syncCalls = @ \o h.calls,
                         !.synced = IF h.synced THEN @ \cup {c.art} ELSE @,
                         !.dirtied = IF h.changed.dirtyArtifacts # changed.dirtyArtifacts
                                     THEN @ \cup {c.art} ELSE @]
             /\ UNCHANGED devRet
           ELSE
             /\ compIdx' = compIdx + 1
             /\ pc' = AfterComponents(compIdx + 1, changedCnt)
             /\ UNCHANGED <<watchList, changedCnt, changed, tk, devRet>>
  /\ UNCHANGED <<notDevVars, cfg, envVars, regIdx, hasError, buildVars, logger, pfStarted,
                 countVars, firstRun>>

\* A Run that drops the error of the on-tick callback; ReloadEndsTheSession
\* tells it from FinalCallbackReturned.
FinalCallbackDropped(ret) ==
  /\ pc' = "select"
  /\ UNCHANGED devRet

\* Run with the value that the on-tick callback returned
FinalCallbackReturned(ret) ==
  IF ret # "nil"
  THEN /\ devRet' = Returned("calling final callback", ret)
       /\ pc' = "returned"
  ELSE /\ pc' = "select"
       /\ UNCHANGED devRet

(***************************************************************************)
(* The on-tick callback, onChange of Dev.                                  *)
(***************************************************************************)
\* A switch that looks at needsRedeploy before dirtyArtifacts; OnTickPriority
\* tells it from OnTickCase.
OnTickCaseRedeployFirst(ch) ==
  IF ch.needsReload THEN "reload"
  ELSE IF ch.needsRedeploy THEN "redeploy"
  ELSE IF Len(ch.dirtyArtifacts) > 0 THEN "build"
  ELSE "none"

\* the case that the switch of onChange takes
OnTickCase(ch) ==
  IF ch.needsReload THEN "reload"
  ELSE IF Len(ch.dirtyArtifacts) > 0 THEN "build"
  ELSE IF ch.needsRedeploy THEN "redeploy"
  ELSE "none"

\* An onChange that rebuilds every artifact; BuilderGetsTheDirtyArtifacts tells
\* it from BuildInput.
BuildInputEveryArtifact(ch) == [i \in 1..Len(ImageName) |-> i]

\* the artifacts that onChange hands to the builder
BuildInput(ch) == ch.dirtyArtifacts

\* An onChange that deploys the results of the tick's build alone;
\* RedeployOnlyTick tells it from DeployInput.
DeployInputThisTicksBuilds(bs) == tk.bRes

\* the builds that onChange hands to the deployer
DeployInput(bs) == bs

\* An onChange that returns the error of the build; LaterErrorsAreDropped tells
\* it from BuildErrorReturn.
BuildErrorPropagated == "build"

\* what onChange returns after a failed build and after a failed deploy
BuildErrorReturn == "nil"

DeployErrorReturn == "nil"

\* logger.Mute, logger.Unmute, logger.Stop
Mute(l) == [l EXCEPT !.muted = TRUE]

Unmute(l) == [l EXCEPT !.muted = FALSE]

Stop(l) == [l EXCEPT !.stopped = TRUE]

\* A deferred function that never unmutes; MutedWhileBuilding tells it from
\* DeferredLogger.
DeferredLoggerStaysMuted(l, hasErr) == l

\* A deferred function that unmutes after every tick; UnmutedIffOnTickSucceeded
\* tells it from DeferredLogger.
DeferredLoggerAlwaysUnmutes(l, hasErr) == Unmute(l)

\* the deferred function of onChange, on the logger
DeferredLogger(l, hasErr) == IF ~hasErr THEN Unmute(l) ELSE l

\* A deferred function that resets the accumulator only after a tick without
\* error; AccumulatorEmptyAfterOnTick tells it from DeferredChanges.
DeferredChangesKeptOnError(ch, hasErr) == IF hasErr THEN ch ELSE changesReset(ch)

\* the deferred function of onChange, on the change accumulator
DeferredChanges(ch, hasErr) == changesReset(ch)

\* onChange up to its first call of the builder or the deployer, or to its end
OnTick ==
  /\ pc = "onTick"
  /\ LET kind == OnTickCase(changed)
         seen == [tk EXCEPT !.ran = TRUE, !.runs = @ + 1, !.seen = changed]
     IN  CASE kind = "reload" ->
                /\ logger' = DeferredLogger(Stop(Mute(logger)), TRUE)
                /\ changed' = DeferredChanges(changed, TRUE)
                /\ hasError' = FALSE
                /\ tk' = [seen EXCEPT !.outcome = "reload", !.ret = "configuration changed"]
                /\ FinalCallbackReturned("configuration changed")
                /\ UNCHANGED <<nBuilds, nDeploys>>
           [] kind = "build" ->
                /\ logger' = Mute(logger)
                /\ hasError' = TRUE
                /\ nBuilds' = nBuilds + 1
                /\ tk' = [seen EXCEPT !.calls = Append(@, [op |-> "build", arg |-> BuildInput(changed)])]
                /\ pc' = "building"
                /\ UNCHANGED <<changed, devRet, nDeploys>>
           [] kind = "redeploy" ->
                /\ logger' = Mute(logger)
                /\ hasError' = TRUE
                /\ nDeploys' = nDeploys + 1
                /\ tk' = [seen EXCEPT !.calls = Append(@, [op |-> "deploy", arg |-> DeployInput(builds)])]
                /\ pc' = "deploying"
                /\ UNCHANGED <<changed, devRet, nBuilds>>
           [] kind = "none" ->
                /\ logger' = DeferredLogger(Mute(logger), FALSE)
                /\ changed' = DeferredChanges(changed, FALSE)
                /\ hasError' = FALSE
                /\ tk' = [seen EXCEPT !.outcome = "ok", !.ret = "nil"]
                /\ FinalCallbackReturned("nil")
                /\ UNCHANGED <<nBuilds, nDeploys>>
  /\ UNCHANGED <<notDevVars, cfg, envVars, regVars, loopVars, buildVars, pfStarted, ticks, firstRun>>

\* An onChange that records the results of a failed build;
\* FailedBuildChangesNothing tells it from BuildFailed.
BuildFailureUpdatesTable ==
  LET bRes == BuildResults(tk.calls[Len(tk.calls)].arg, nextTag)
      u == updateBuiltImages(imageList, builds, bRes)
  IN  /\ imageList' = u.images
      /\ builds' = u.builds
      /\ UNCHANGED <<nextTag, nDeploys>>

\* onChange after a failed build: a warning, no updateBuiltImages, no deploy
BuildFailed == UNCHANGED <<buildVars, nDeploys>>

\* r.Build returns in onChange; after a build without error, r.updateBuiltImages
\* and the call of r.Deploy
BuildReturn ==
  /\ pc = "building"
  /\ \E ok \in BOOLEAN :
       IF ok
       THEN LET bRes == BuildResults(tk.calls[Len(tk.calls)].arg, nextTag)
                u == updateBuiltImages(imageList, builds, bRes)
            IN  /\ imageList' = u.images
                /\ builds' = u.builds
                /\ nextTag' = nextTag + 1
                /\ nDeploys' = nDeploys + 1
                /\ tk' = [tk EXCEPT !.bRes = bRes,
                                    !.calls = Append(@, [op |-> "deploy", arg |-> DeployInput(u.builds)])]
                /\ pc' = "deploying"
                /\ UNCHANGED <<changed, hasError, logger, devRet>>
       ELSE /\ logger' = DeferredLogger(logger, hasError)
            /\ changed' = DeferredChanges(changed, hasError)
            /\ hasError' = FALSE
            /\ tk' = [tk EXCEPT !.outcome = "buildErr", !.ret = BuildErrorReturn]
            /\ FinalCallbackReturned(BuildErrorReturn)
            /\ BuildFailed
  /\ UNCHANGED <<notDevVars, cfg, envVars, regVars, loopVars, pfStarted, ticks, nBuilds, firstRun>>

\* An onChange that goes back to the table of before the tick when the deploy
\* fails; FailedDeployKeepsNewTags tells it from DeployFailed.
DeployFailureRestoresTable ==
  /\ builds' = tk.prev
  /\ UNCHANGED <<imageList, nextTag>>

\* onChange after a failed deploy: a warning, r.builds stays as it is
DeployFailed == UNCHANGED buildVars

\* r.Deploy returns in onChange
DeployReturn ==
  /\ pc = "deploying"
  /\ \E ok \in BOOLEAN :
       LET ret == IF ok THEN "nil" ELSE DeployErrorReturn
       IN  /\ logger' = DeferredLogger(logger, IF ok THEN FALSE ELSE hasError)
           /\ tk' = [tk EXCEPT !.outcome = IF ok THEN "ok" ELSE "deployErr", !.ret = ret]
           /\ FinalCallbackReturned(ret)
           /\ changed' = DeferredChanges(changed, IF ok THEN FALSE ELSE hasError)
           /\ IF ok THEN UNCHANGED buildVars ELSE DeployFailed
  /\ hasError' = FALSE
  /\ UNCHANGED <<notDevVars, cfg, envVars, regVars, loopVars, pfStarted, countVars, firstRun>>

(***************************************************************************)
(* The port-forwarder. Start runs one goroutine that reads the pod events  *)
(* and starts one more goroutine, running portForwardPod, for every event  *)
(* that it forwards. forward stores the entry and then runs kubectl until  *)
(* the process exits.                                                      *)
(***************************************************************************)
Pods == {"p1", "p2"}

\* pod.Spec.Containers with their ports, as (container name, port) pairs; the
\* two pods run the same container
PodPorts == ("p1" :> <<<<"c", 80>>, <<"c", 81>>>>) @@ ("p2" :> <<<<"c", 80>>>>)

\* portForwardEntry.key(), one key for every container name and port
Keys == UNION {Range(PodPorts[p]) : p \in Pods}

\* the pod events of the watch
PodEvents ==
  [type : {"ADDED", "MODIFIED", "DELETED"}, pod : Pods,
   resourceVersion : 1..MaxResourceVersion, phase : {"Running", "Pending"},
   selected : BOOLEAN, deleting : BOOLEAN]

\* An entry is named by the goroutine that made it and the port it is for; no
\* entry is named None.
None == <<0, 0>>

\* the entry that a goroutine has not made yet
NoEntry == [proc |-> "none", signalled |-> FALSE, status |-> "none"]

InitPF ==
  /\ pfMain = "running"
  /\ pfCtxDone = FALSE
  /\ forwardedPods = [k \in Keys |-> None]
  /\ entries = <<>>
  /\ gor = <<>>
  /\ pfSkipped = "none"

\* the first of Start's conditions that the event fails
SkipReason(evt) ==
  IF evt.type # "MODIFIED" THEN "type"
  ELSE IF ~evt.selected THEN "selector"
  ELSE IF evt.phase # "Running" THEN "phase"
  ELSE "deleting"

\* A Start that does not look at the type of the event; ForwardOnlyWhenReady
\* tells it from Forwards.
ForwardsAnyType(evt) ==
  /\ evt.selected
  /\ evt.phase = "Running"
  /\ ~evt.deleting

\* Start forwards the pod of an event
Forwards(evt) ==
  /\ evt.type = "MODIFIED"
  /\ evt.selected
  /\ evt.phase = "Running"
  /\ ~evt.deleting

\* the context of the session is cancelled, while Start reads it
PFCancel ==
  /\ pfMain = "running"
  /\ ~pfCtxDone
  /\ pfCtxDone' = TRUE
  /\ UNCHANGED <<notPfVars, pfSkipped, pfMain, forwardedPods, entries, gor>>

\* Start: case evt, ok := <-p.podWatcher.ResultChan() with an event
PFReceive ==
  /\ pfMain = "running"
  /\ Len(gor) < MaxForwards
  /\ \E evt \in PodEvents :
       IF Forwards(evt)
       THEN /\ gor' = Append(gor, [pod |-> evt.pod, resourceVersion |-> evt.resourceVersion,
                                   i |-> 1, at |-> "load", prev |-> None, err |-> "nil",
                                   evt |-> evt])
            /\ entries' = Append(entries, [i \in 1..Len(PodPorts[evt.pod]) |-> NoEntry])
            /\ UNCHANGED pfSkipped
       ELSE /\ pfSkipped' = SkipReason(evt)
            /\ UNCHANGED <<gor, entries>>
  /\ UNCHANGED <<notPfVars, pfMain, pfCtxDone, forwardedPods>>

\* Start: the channel of the watch is closed
PFWatchClosed ==
  /\ pfMain = "running"
  /\ pfMain' = "done"
  /\ UNCHANGED <<notPfVars, pfSkipped, pfCtxDone, forwardedPods, entries, gor>>

\* the fields of a stored entry
Entry(id) == entries[id[1]][id[2]]

EntryPod(id) == gor[id[1]].pod

EntryVersion(id) == gor[id[1]].resourceVersion

EntryIds == {<<g, i>> : g \in 1..Len(entries), i \in 1..2}

\* every entry that has been stored, with the key it was stored under
Stored == {id \in EntryIds : id[2] <= Len(entries[id[1]]) /\ Entry(id).proc # "none"}

\* portForwardEntry.stop on a stored entry: "panic" when cmd.Process is nil, an
\* error when the process has exited, else the process is signalled
stop(id) ==
  IF Entry(id).proc = "created" THEN "panic"
  ELSE IF Entry(id).proc = "exited" THEN "terminating port-forward process"
  ELSE "nil"

Signalled(ids) ==
  [g \in 1..Len(entries) |->
     [i \in 1..Len(entries[g]) |->
        IF <<g, i>> \in ids /\ stop(<<g, i>>) = "nil"
        THEN [entries[g][i] EXCEPT !.signalled = TRUE]
        ELSE entries[g][i]]]

\* the entries that cleanupPorts stops: Range visits the entries of the table in
\* no fixed order and ends when the callback returns false
CleanupTargets ==
  LET inTable == {forwardedPods[k] : k \in Keys} \ {None}
  IN  IF inTable = {} THEN {{}} ELSE {{id} : id \in inTable}

\* Start: case <-ctx.Done(): p.cleanupPorts(); return
PFCleanup ==
  /\ pfMain = "running"
  /\ pfCtxDone
  /\ \E ids \in CleanupTargets :
       IF \E id \in ids : stop(id) = "panic"
       THEN /\ pfMain' = "panic"
            /\ UNCHANGED entries
       ELSE /\ pfMain' = "cleaned"
            /\ entries' = Signalled(ids)
  /\ UNCHANGED <<notPfVars, pfSkipped, pfCtxDone, forwardedPods, gor>>

\* the program is running: a nil pointer dereference in a goroutine ends it
Alive == pfMain # "panic"

\* the key of the port that goroutine g is at
KeyOf(g) == PodPorts[gor[g].pod][gor[g].i]

\* A portForwardPod that never stops the entry it finds; OldSignalledFirst
\* tells it from AfterLoad.
AfterLoadNoStop(rv, v) == "forward"

\* portForwardPod after forwardedPods.Load has returned v: stop the previous
\* entry when the pod is of a newer generation, else forward at once
AfterLoad(rv, v) ==
  IF v # None /\ rv > EntryVersion(v) THEN "stop" ELSE "forward"

\* portForwardPod: the head of the loop over the ports, then forwardedPods.Load
\* and the comparison of the resource versions
GLoad(g) ==
  /\ Alive
  /\ gor[g].at = "load"
  /\ IF gor[g].i > Len(PodPorts[gor[g].pod])
     THEN gor' = [gor EXCEPT ![g].at = "done", ![g].prev = None]
     ELSE LET v == forwardedPods[KeyOf(g)]
          IN  gor' = [gor EXCEPT ![g].at = AfterLoad(gor[g].resourceVersion, v),
                                     ![g].prev = v]
  /\ UNCHANGED <<notPfVars, pfSkipped, pfMain, pfCtxDone, forwardedPods, entries>>

\* portForwardPod: prevEntry.stop()
GStop(g) ==
  /\ Alive
  /\ gor[g].at = "stop"
  /\ LET r == stop(gor[g].prev)
     IN  CASE r = "panic" ->
                /\ pfMain' = "panic"
                /\ UNCHANGED <<entries, gor>>
           [] r = "nil" ->
                /\ entries' = Signalled({gor[g].prev})
                /\ gor' = [gor EXCEPT ![g].at = "forward"]
                /\ UNCHANGED pfMain
           [] OTHER ->
                /\ gor' = [gor EXCEPT ![g].at = "done", ![g].prev = None, ![g].err = r]
                /\ UNCHANGED <<pfMain, entries>>
  /\ UNCHANGED <<notPfVars, pfSkipped, pfCtxDone, forwardedPods>>

\* forward: p.cmd = cmd; forwardedPods.Store(p.key(), p)
GStore(g) ==
  /\ Alive
  /\ gor[g].at = "forward"
  /\ entries' = [entries EXCEPT ![g][gor[g].i].proc = "created"]
  /\ forwardedPods' = [forwardedPods EXCEPT ![KeyOf(g)] = <<g, gor[g].i>>]
  /\ gor' = [gor EXCEPT ![g].at = "run", ![g].prev = None]
  /\ UNCHANGED <<notPfVars, pfSkipped, pfMain, pfCtxDone>>

\* forward: util.RunCmdOut(cmd) starts the kubectl process
GRun(g) ==
  /\ Alive
  /\ gor[g].at = "run"
  /\ \E ok \in BOOLEAN :
       IF ok
       THEN /\ entries' = [entries EXCEPT ![g][gor[g].i].proc = "alive"]
            /\ gor' = [gor EXCEPT ![g].at = "wait"]
       ELSE /\ gor' = [gor EXCEPT ![g].at = "done", ![g].prev = None, ![g].err = "port forwarding"]
            /\ UNCHANGED entries
  /\ UNCHANGED <<notPfVars, pfSkipped, pfMain, pfCtxDone, forwardedPods>>

\* a kubectl process exits: after the signal, or by itself with or without error
ProcExit(id) ==
  /\ Alive
  /\ id \in Stored
  /\ Entry(id).proc = "alive"
  /\ \E st \in {"ok", "error"} :
       /\ Entry(id).signalled => st = "error"
       /\ entries' = [entries EXCEPT ![id[1]][id[2]].proc = "exited",
                                     ![id[1]][id[2]].status = st]
  /\ UNCHANGED <<notPfVars, pfSkipped, pfMain, pfCtxDone, forwardedPods, gor>>

\* forward: util.RunCmdOut(cmd) returns when the process has exited
GWait(g) ==
  /\ Alive
  /\ gor[g].at = "wait"
  /\ entries[g][gor[g].i].proc = "exited"
  /\ IF entries[g][gor[g].i].status = "error"
     THEN gor' = [gor EXCEPT ![g].at = "done", ![g].prev = None, ![g].err = "port forwarding"]
     ELSE gor' = [gor EXCEPT ![g].at = "load", ![g].i = @ + 1]
  /\ UNCHANGED <<notPfVars, pfSkipped, pfMain, pfCtxDone, forwardedPods, entries>>

NextPF ==
  \/ PFCancel
  \/ PFReceive
  \/ PFWatchClosed
  \/ PFCleanup
  \/ \E g \in 1..Len(gor) : GLoad(g)
  \/ \E g \in 1..Len(gor) : GStop(g)
  \/ \E g \in 1..Len(gor) : GStore(g)
  \/ \E g \in 1..Len(gor) : GRun(g)
  \/ \E g \in 1..Len(gor) : GWait(g)
  \/ \E id \in EntryIds : ProcExit(id)

(***************************************************************************)
(* The manifest transformer, manifestList.replaceImages. A document is the *)
(* tree of its YAML nodes, [t, s, c]: a mapping ("map", c the pairs        *)
(* [k, val] in the order in which they are written), a sequence ("seq", c  *)
(* its elements), a string ("str", s), an integer ("int", s its digits),   *)
(* or nothing at all ("empty"). The key of a pair is a string or an        *)
(* integer node.                                                           *)
(***************************************************************************)
StrNode(x) == [t |-> "str", s |-> x, c |-> <<>>]

\* an integer scalar, by its digits
IntNode(x) == [t |-> "int", s |-> x, c |-> <<>>]

SeqNode(x) == [t |-> "seq", s |-> "", c |-> x]

MapNode(x) == [t |-> "map", s |-> "", c |-> x]

Pair(k, val) == [k |-> k, val |-> val]

EmptyDoc == [t |-> "empty", s |-> "", c |-> <<>>]

\* docker.ParseReference on the strings of the manifests and the tags: an
\* error, or the base name and whether the reference is fully qualified (it
\* has a digest or a tag other than latest)
ParseReference ==
  ("web" :> [err |-> FALSE, BaseName |-> "web", FullyQualified |-> FALSE]) @@
  ("web:latest" :> [err |-> FALSE, BaseName |-> "web", FullyQualified |-> FALSE]) @@
  ("web:1" :> [err |-> FALSE, BaseName |-> "web", FullyQualified |-> TRUE]) @@
  ("db" :> [err |-> FALSE, BaseName |-> "db", FullyQualified |-> FALSE]) @@
  ("db:2" :> [err |-> FALSE, BaseName |-> "db", FullyQualified |-> TRUE]) @@
  ("gcr.io/other@sha256:0a" :> [err |-> FALSE, BaseName |-> "gcr.io/other", FullyQualified |-> TRUE]) @@
  ("WEB" :> [err |-> TRUE, BaseName |-> "", FullyQualified |-> FALSE])

\* the documents of the manifests
Docs ==
  { MapNode(<<Pair(StrNode("image"), StrNode("web"))>>),
    MapNode(<<Pair(StrNode("spec"),
                   SeqNode(<<MapNode(<<Pair(StrNode("name"), StrNode("db")),
                                       Pair(StrNode("image"), StrNode("web:latest"))>>),
                             MapNode(<<Pair(StrNode("image"), StrNode("gcr.io/other@sha256:0a"))>>)>>)),
              Pair(StrNode("name"), StrNode("web"))>>),
    MapNode(<<Pair(StrNode("image"), StrNode("db")), Pair(StrNode("name"), IntNode("1"))>>),
    MapNode(<<Pair(StrNode("image"), StrNode("web:1"))>>),
    MapNode(<<Pair(StrNode("image"), StrNode("WEB"))>>),
    MapNode(<<Pair(StrNode("image"), IntNode("1"))>>),
    MapNode(<<Pair(StrNode("image"), MapNode(<<Pair(StrNode("image"), StrNode("web"))>>))>>),
    MapNode(<<Pair(IntNode("1"), StrNode("web"))>>),
    SeqNode(<<MapNode(<<Pair(StrNode("image"), StrNode("web"))>>)>>),
    StrNode("web"),
    MapNode(<<>>),
    EmptyDoc }

\* the manifest lists: up to MaxManifests documents
ManifestLists == UNION {[1..n -> Docs] : n \in 0..MaxManifests}

\* a line that begins with ---
Sep == [t |-> "sep", s |-> "---", c |-> <<>>]

\* What applyManifests reads: separator lines and, between them, the text of
\* one document each. The text between two separators that is written is
\* never the empty text, which is no text at all.
Streams ==
  LET Items == (Docs \ {EmptyDoc}) \cup {Sep}
      Seqs == UNION {[1..n -> Items] : n \in 0..(MaxManifests + 1)}
  IN  {s \in Seqs : \A i \in 1..(Len(s) - 1) : s[i] = Sep \/ s[i + 1] = Sep}

\* bytes.Split(buf, "\n---") on the lines that follow a part of which cur is
\* the document so far
RECURSIVE splitParts(_, _)
splitParts(s, cur) ==
  IF s = <<>> THEN <<cur>>
  ELSE IF Head(s) = Sep THEN <<cur>> \o splitParts(Tail(s), EmptyDoc)
  ELSE splitParts(Tail(s), Head(s))

\* newManifestList(r): one manifest for every part of the split. A separator
\* on the first line follows no line break: it stays in the first part, where
\* it is the document start marker of that part.
newManifestList(stream) ==
  IF stream # <<>> /\ Head(stream) = Sep
  THEN splitParts(Tail(stream), EmptyDoc)
  ELSE splitParts(stream, EmptyDoc)

\* the build results given to the transformer
BuildLists ==
  { <<>>,
    <<[ImageName |-> "web", Tag |-> "web:1"]>>,
    <<[ImageName |-> "web", Tag |-> "web:1"], [ImageName |-> "db", Tag |-> "db:2"]>>,
    <<[ImageName |-> "web", Tag |-> "db"], [ImageName |-> "db", Tag |-> "db:2"]>>,
    <<[ImageName |-> "web", Tag |-> "db:2"], [ImageName |-> "db", Tag |-> "web:1"]>> }

\* the order in which yaml.Marshal writes the keys of a mapping: integers
\* first, then strings in their order
KeyOrder == <<IntNode("1"), StrNode("image"), StrNode("name"), StrNode("spec")>>

KeyRank(k) == CHOOSE i \in 1..Len(KeyOrder) : KeyOrder[i] = k

\* A Go value made by yaml.Unmarshal and the document that yaml.Marshal
\* writes for it: a map has no order of its own and is written with its keys
\* sorted.
RECURSIVE Sorted(_)
Sorted(n) ==
  CASE n.t = "map" ->
         MapNode(SortSeq([i \in 1..Len(n.c) |-> Pair(n.c[i].k, Sorted(n.c[i].val))],
                         LAMBDA x, y : KeyRank(x.k) < KeyRank(y.k)))
    [] n.t = "seq" -> SeqNode([i \in 1..Len(n.c) |-> Sorted(n.c[i])])
    [] OTHER -> n

\* yaml.Unmarshal(manifest, &m) with m a map: an error unless the document is
\* a mapping or empty
Unmarshal(doc) ==
  CASE doc.t = "map" -> [err |-> FALSE, m |-> Sorted(doc)]
    [] doc.t = "empty" -> [err |-> FALSE, m |-> MapNode(<<>>)]
    [] OTHER -> [err |-> TRUE, m |-> MapNode(<<>>)]

\* yaml.Marshal(m)
Marshal(m) == Sorted(m)

\* replacements: image name -> tag
Replacements(bs) ==
  [name \in {bs[i].ImageName : i \in 1..Len(bs)} |->
     LET last == CHOOSE i \in 1..Len(bs) :
                   /\ bs[i].ImageName = name
                   /\ \A j \in (i + 1)..Len(bs) : bs[j].ImageName # name
     IN  bs[last].Tag]

\* the value that a failed type assertion leaves behind
Panic == [t |-> "panic", s |-> "", c |-> <<>>]

\* A replacement that does not look at FullyQualified; ImageValuesRewritten and
\* IdempotentWithQualifiedTags tell it from ReplaceImageValue.
ReplaceQualifiedToo(val, replacements) ==
  IF val.t # "str" THEN Panic
  ELSE LET parsed == ParseReference[val.s]
       IN  IF parsed.err THEN val
           ELSE IF parsed.BaseName \in DOMAIN replacements
                THEN StrNode(replacements[parsed.BaseName])
           ELSE val

\* what recursiveReplaceImage does to the value of the key image
ReplaceImageValue(val, replacements) ==
  IF val.t # "str" THEN Panic
  ELSE LET parsed == ParseReference[val.s]
       IN  IF parsed.err THEN val
           ELSE IF parsed.FullyQualified THEN val
           ELSE IF parsed.BaseName \in DOMAIN replacements
                THEN StrNode(replacements[parsed.BaseName])
           ELSE val

\* recursiveReplaceImage(i, replacements): the value afterwards, or Panic
RECURSIVE recursiveReplaceImage(_, _)
recursiveReplaceImage(n, replacements) ==
  CASE n.t = "seq" ->
         LET vs == [i \in 1..Len(n.c) |-> recursiveReplaceImage(n.c[i], replacements)]
         IN  IF \E i \in 1..Len(vs) : vs[i] = Panic THEN Panic ELSE SeqNode(vs)
    [] n.t = "map" ->
         LET vs == [i \in 1..Len(n.c) |->
                      IF n.c[i].k.t # "str" THEN Panic
                      ELSE IF n.c[i].k.s # "image"
                           THEN recursiveReplaceImage(n.c[i].val, replacements)
                      ELSE ReplaceImageValue(n.c[i].val, replacements)]
         IN  IF \E i \in 1..Len(vs) : vs[i] = Panic THEN Panic
             ELSE MapNode([i \in 1..Len(n.c) |-> Pair(n.c[i].k, vs[i])])
    [] OTHER -> n

\* A loop that also emits the documents that are empty; EmptyDocumentsElided
\* tells it from replaceLoop.
RECURSIVE replaceLoopKeepingEmpty(_, _, _)
replaceLoopKeepingEmpty(l, replacements, updatedManifests) ==
  IF l = <<>> THEN [status |-> "ok", out |-> updatedManifests]
  ELSE LET u == Unmarshal(Head(l))
           r == recursiveReplaceImage(u.m, replacements)
       IN  IF u.err THEN [status |-> "error", out |-> <<>>]
           ELSE IF r = Panic THEN [status |-> "panic", out |-> <<>>]
           ELSE replaceLoopKeepingEmpty(Tail(l), replacements,
                                        Append(updatedManifests, Marshal(r)))

\* replaceImages: the loop over the manifests, [status, out] with status "ok",
\* "error" (an error is returned) or "panic"
RECURSIVE replaceLoop(_, _, _)
replaceLoop(l, replacements, updatedManifests) ==
  IF l = <<>> THEN [status |-> "ok", out |-> updatedManifests]
  ELSE LET u == Unmarshal(Head(l))
           r == recursiveReplaceImage(u.m, replacements)
       IN  IF u.err THEN [status |-> "error", out |-> <<>>]
           ELSE IF Len(u.m.c) = 0 THEN replaceLoop(Tail(l), replacements, updatedManifests)
           ELSE IF r = Panic THEN [status |-> "panic", out |-> <<>>]
           ELSE replaceLoop(Tail(l), replacements, Append(updatedManifests, Marshal(r)))

\* l.replaceImages(builds)
replaceImages(l, bs) == replaceLoop(l, Replacements(bs), <<>>)

NotRun == [status |-> "none", out |-> <<>>]

\* the transformer at rest
NoTransform ==
  [pc |-> "idle", fromReader |-> FALSE, stream |-> <<>>, manifests |-> <<>>, builds |-> <<>>,
   out |-> NotRun, again |-> NotRun]

\* replaceImages is called with the manifests and the builds
ReplaceImages ==
  /\ mf.pc = "start"
  /\ ~mf.fromReader
  /\ mf' = [mf EXCEPT !.pc = "replaced", !.out = replaceImages(mf.manifests, mf.builds)]
  /\ UNCHANGED notMfVars

\* applyManifests up to the call of kubectl: newManifestList(r), then
\* replaceImages on the list
ApplyManifests ==
  /\ mf.pc = "start"
  /\ mf.fromReader
  /\ LET manifestList == newManifestList(mf.stream)
     IN  mf' = [mf EXCEPT !.pc = "replaced", !.manifests = manifestList,
                          !.out = replaceImages(manifestList, mf.builds)]
  /\ UNCHANGED notMfVars

\* replaceImages is called again, with what it returned and the same builds
ReplaceImagesAgain ==
  /\ mf.pc = "replaced"
  /\ mf.out.status = "ok"
  /\ mf' = [mf EXCEPT !.pc = "done", !.again = replaceImages(mf.out.out, mf.builds)]
  /\ UNCHANGED notMfVars

NextMF ==
  \/ ReplaceImages
  \/ ApplyManifests
  \/ ReplaceImagesAgain

(***************************************************************************)
(* Run-once mode, SkaffoldRunner.Run and TailLogs. Run is given the         *)
(* artifacts of the configuration; it does not read r.opts.Watch and does   *)
(* not touch r.builds. tk records the calls of the builder and the deployer *)
(* and how each of them ended; imageList and logger are the image list and  *)
(* the log aggregator that TailLogs makes.                                  *)
(***************************************************************************)
InRun == pc \in {"run", "runDeploy", "startTail", "tailing"}

\* the context of Run is cancelled
RunCancel ==
  /\ InRun
  /\ ~ctxDone
  /\ ctxDone' = TRUE
  /\ UNCHANGED <<notRunVars, tail, cfg, fs, clock, pc, regVars, loopVars, changed, hasError,
                 buildVars, logger, pfStarted, devRet, countVars, firstRun, tk>>

\* A Run that goes on to the deploy after a failed build; RunOnce tells it
\* from RunBuildFailed.
RunBuildFailureIgnored ==
  /\ pc' = "runDeploy"
  /\ UNCHANGED devRet

\* Run returns the error of the build
RunBuildFailed ==
  /\ devRet' = Returned("build step", "build")
  /\ pc' = "returned"

\* Run: r.Build of the artifacts
RunBuild ==
  /\ pc = "run"
  /\ nBuilds' = nBuilds + 1
  /\ \E ok \in BOOLEAN :
       IF ok
       THEN /\ tk' = [tk EXCEPT !.calls = Append(@, [op |-> "build", arg |-> AllArtifacts]),
                               !.bRes = BuildResults(AllArtifacts, nextTag),
                               !.outcome = "built"]
            /\ nextTag' = nextTag + 1
            /\ pc' = "runDeploy"
            /\ UNCHANGED devRet
       ELSE /\ tk' = [tk EXCEPT !.calls = Append(@, [op |-> "build", arg |-> AllArtifacts]),
                               !.outcome = "buildErr"]
            /\ RunBuildFailed
            /\ UNCHANGED nextTag
  /\ UNCHANGED <<notRunVars, tail, cfg, envVars, regVars, loopVars, changed, hasError, builds,
                 imageList, logger, pfStarted, ticks, nDeploys, firstRun>>

\* Run: r.Deploy of the build's results, then TailLogs when r.opts.Tail is
\* not set
RunDeploy ==
  /\ pc = "runDeploy"
  /\ nDeploys' = nDeploys + 1
  /\ \E ok \in BOOLEAN :
       IF ok
       THEN /\ tk' = [tk EXCEPT !.calls = Append(@, [op |-> "deploy", arg |-> tk.bRes]),
                               !.outcome = "deployed"]
            /\ IF tail
               THEN /\ pc' = "startTail"
                    /\ UNCHANGED devRet
               ELSE /\ devRet' = Returned("nil", "nil")
                    /\ pc' = "returned"
       ELSE /\ tk' = [tk EXCEPT !.calls = Append(@, [op |-> "deploy", arg |-> tk.bRes]),
                               !.outcome = "deployErr"]
            /\ devRet' = Returned("deploy step", "deploy")
            /\ pc' = "returned"
  /\ UNCHANGED <<notRunVars, tail, cfg, envVars, regVars, loopVars, changed, hasError, buildVars,
                 logger, pfStarted, ticks, nBuilds, firstRun>>

\* TailLogs: the image list of the build's tags, then logger.Start
RunTailLogs ==
  /\ pc = "startTail"
  /\ imageList' = {tk.bRes[i].Tag : i \in 1..Len(tk.bRes)}
  /\ \E ok \in BOOLEAN :
       IF ok
       THEN /\ logger' = [logger EXCEPT !.started = TRUE]
            /\ pc' = "tailing"
            /\ UNCHANGED devRet
       ELSE /\ devRet' = Returned("starting logger", "logger")
            /\ pc' = "returned"
            /\ UNCHANGED logger
  /\ UNCHANGED <<notRunVars, tail, cfg, envVars, regVars, loopVars, changed, hasError, builds,
                 nextTag, pfStarted, countVars, firstRun, tk>>

\* TailLogs: <-ctx.Done(), return nil
RunTailDone ==
  /\ pc = "tailing"
  /\ ctxDone
  /\ devRet' = Returned("nil", "nil")
  /\ pc' = "returned"
  /\ UNCHANGED <<notRunVars, tail, cfg, envVars, regVars, loopVars, changed, hasError, buildVars,
                 logger, pfStarted, countVars, firstRun, tk>>

NextRun ==
  \/ RunCancel
  \/ RunBuild
  \/ RunDeploy
  \/ RunTailLogs
  \/ RunTailDone

(***************************************************************************)
(* The labeler, ApplyLabelDeployResults. A deployed object is of a kind    *)
(* that updateRuntimeObject knows, and then updated through the API        *)
(* server, or of an unknown kind, and then skipped without an error. att   *)
(* lists, for every object, how each call of updateRuntimeObject ended;    *)
(* warned lists the objects that the labeler gave up.                      *)
(***************************************************************************)
tries == 3

ObjectKinds == {"known", "unknown"}

ResultLists == UNION {[1..n -> ObjectKinds] : n \in 0..MaxObjects}

NoLabeling ==
  [pc |-> "client", kinds |-> <<>>, res |-> 0, i |-> 0, att |-> <<>>, warned |-> {}]

\* A retry loop that goes on after an update without error; LabelRetries
\* tells it from AfterUpdate.
AfterUpdateNoBreak(err, i) ==
  IF i + 1 < tries THEN "again" ELSE IF err THEN "warn" ELSE "next"

\* the retry loop after a call of updateRuntimeObject, the i-th from 0: break,
\* or sleep and try again, or sleep, leave the loop and warn
AfterUpdate(err, i) ==
  IF ~err THEN "next" ELSE IF i + 1 < tries THEN "again" ELSE "warn"

\* kubernetes.Client()
LabelClient ==
  /\ lb.pc = "client"
  /\ \E ok \in BOOLEAN :
       lb' = IF ok /\ Len(lb.kinds) > 0
             THEN [lb EXCEPT !.pc = "loop", !.res = 1]
             ELSE [lb EXCEPT !.pc = IF ok THEN "done" ELSE "noClient"]
  /\ UNCHANGED notLbVars

\* one call of updateRuntimeObject in the retry loop, and what the loop does
\* with its result
LabelUpdate ==
  /\ lb.pc = "loop"
  /\ \E apiOk \in BOOLEAN :
       LET err == lb.kinds[lb.res] = "known" /\ ~apiOk
           after == AfterUpdate(err, lb.i)
           done == [lb EXCEPT !.att[lb.res] = Append(@, IF err THEN "err" ELSE "nil")]
           last == lb.res = Len(lb.kinds)
       IN  lb' = IF after = "again"
                 THEN [done EXCEPT !.i = @ + 1]
                 ELSE [done EXCEPT !.i = 0,
                                   !.res = @ + 1,
                                   !.pc = IF last THEN "done" ELSE "loop",
                                   !.warned = IF after = "warn" THEN @ \cup {lb.res} ELSE @]
  /\ UNCHANGED notLbVars

NextLB ==
  \/ LabelClient
  \/ LabelUpdate

(***************************************************************************)
(* The specifications: the dev session, and the port-forwarder of a        *)
(* session that is in its poll loop.                                       *)
(***************************************************************************)
Init == InitDev /\ InitPF /\ mf = NoTransform /\ tail = FALSE /\ lb = NoLabeling

Next ==
  \/ \E p \in PathSet : WriteFile(p)
  \/ \E p \in PathSet : RemoveFile(p)
  \/ Cancel
  \/ RegisterArtifact
  \/ RegisterDeployer
  \/ RegisterConfig
  \/ FirstBuild
  \/ FirstDeploy
  \/ StartLogs
  \/ RunCtxDone
  \/ TickStart
  \/ ProcessComponent
  \/ OnTick
  \/ BuildReturn
  \/ DeployReturn

Spec == Init /\ [][Next]_vars

\* The dev session with its scheduling: a tick that is under way goes on (the
\* builder and the deployer return), and the select of Run, which chooses
\* among its ready cases at random, does not leave ctx.Done() out for ever.
Fairness ==
  /\ WF_vars(ProcessComponent)
  /\ WF_vars(OnTick)
  /\ WF_vars(BuildReturn)
  /\ WF_vars(DeployReturn)
  /\ SF_vars(RunCtxDone)

\* a session whose first artifact syncs a.js and is rebuilt for b.js, and
\* whose second artifact is rebuilt for c.js
InitLive ==
  /\ Init
  /\ cfg = [sync |-> <<<<"a.*">>, <<"a.*">>>>, watch |-> <<>>]

SpecLive == InitLive /\ [][Next]_vars /\ Fairness

\* a session of the same configuration in which b.js, a file that the first
\* artifact is built from, does not exist when Dev starts
InitCoalesce ==
  /\ InitSession([p \in PathSet |-> IF p = "b.js" THEN -1 ELSE 1])
  /\ cfg = [sync |-> <<<<"a.*">>, <<"a.*">>>>, watch |-> <<>>]
  /\ InitPF
  /\ mf = NoTransform
  /\ tail = FALSE
  /\ lb = NoLabeling

SpecCoalesce == InitCoalesce /\ [][Next]_vars

\* the port-forwarder beside a dev session that does not move
InitForwarder ==
  /\ InitDev
  /\ cfg.sync = <<<<>>, <<"a.*">>>>
  /\ InitPF
  /\ mf = NoTransform
  /\ tail = FALSE
  /\ lb = NoLabeling

SpecPF == InitForwarder /\ [][NextPF]_vars

\* The port-forwarder with its scheduling: every goroutine that can take a
\* step of portForwardPod takes it. A kubectl process may run for ever.
FairnessPF ==
  /\ WF_vars(\E g \in 1..Len(gor) : GLoad(g))
  /\ WF_vars(\E g \in 1..Len(gor) : GStop(g))
  /\ WF_vars(\E g \in 1..Len(gor) : GStore(g))
  /\ WF_vars(\E g \in 1..Len(gor) : GRun(g))
  /\ WF_vars(\E g \in 1..Len(gor) : GWait(g))

SpecPFLive == InitForwarder /\ [][NextPF]_vars /\ FairnessPF

\* the manifest transformer, on every manifest list and every list of builds,
\* the list being given or else read from a stream
InitTransformer ==
  /\ InitDev
  /\ cfg.sync = <<<<>>, <<"a.*">>>>
  /\ InitPF
  /\ \/ mf \in [pc : {"start"}, fromReader : {FALSE}, stream : {<<>>},
                 manifests : ManifestLists, builds : BuildLists,
                 out : {NotRun}, again : {NotRun}]
     \/ mf \in [pc : {"start"}, fromReader : {TRUE}, stream : Streams,
                 manifests : {<<>>}, builds : BuildLists,
                 out : {NotRun}, again : {NotRun}]
  /\ tail = FALSE
  /\ lb = NoLabeling

SpecMF == InitTransformer /\ [][NextMF]_vars

\* a runner of any configuration that is asked to run once, the tagger
\* being at any of its tags
InitRun ==
  /\ cfg \in Configs
  /\ tail \in BOOLEAN
  /\ fs = [p \in PathSet |-> 1]
  /\ clock = 1
  /\ ctxDone = FALSE
  /\ pc = "run"
  /\ regIdx = 1
  /\ watchList = <<>>
  /\ compIdx = 0
  /\ changedCnt = 0
  /\ changed = NoChanges
  /\ hasError = FALSE
  /\ builds = <<>>
  /\ imageList = {}
  /\ logger = [started |-> FALSE, muted |-> FALSE, stopped |-> FALSE]
  /\ pfStarted = FALSE
  /\ nextTag \in 1..(MaxTicks + 1)
  /\ devRet = Running
  /\ ticks = 0
  /\ nBuilds = 0
  /\ nDeploys = 0
  /\ firstRun = "none"
  /\ tk = NoTick
  /\ InitPF
  /\ mf = NoTransform
  /\ lb = NoLabeling

SpecRun == InitRun /\ [][NextRun]_vars

\* the labeler on every list of deployed objects
InitLabeler ==
  /\ InitDev
  /\ cfg.sync = <<<<>>, <<"a.*">>>>
  /\ InitPF
  /\ mf = NoTransform
  /\ tail = FALSE
  /\ lb \in {[NoLabeling EXCEPT !.kinds = ks, !.att = [o \in 1..Len(ks) |-> <<>>]] :
               ks \in ResultLists}

SpecLB == InitLabeler /\ [][NextLB]_vars

(***************************************************************************)
(* The properties of the dev session.                                      *)
(***************************************************************************)
\* the operations of the builder and the deployer that the tick has called
TickOps == [i \in 1..Len(tk.calls) |-> tk.calls[i].op]

\* the image names of a list of builds
Names(bs) == {bs[i].ImageName : i \in 1..Len(bs)}

\* no element occurs twice in s
NoRepeat(s) == \A i, j \in 1..Len(s) : s[i] = s[j] => i = j

\* the component whose handler fired i-th in the tick
Fired(i) == watchList[tk.fired[i].idx]

\* the paths of an event
PathsOf(e) == Range(e.Added) \cup Range(e.Modified) \cup Range(e.Deleted)

\* C1: if the first build or the first deploy fails, Dev returns an error and
\* ends: no tick of the poll loop starts, and the builder and the deployer are
\* not called again (one build, and one deploy only when the build succeeded).
FirstRunIsFatal ==
  firstRun \in {"buildErr", "deployErr"} =>
    /\ pc = "returned"
    /\ devRet.state = "returned"
    /\ devRet.err # "nil"
    /\ devRet.cause = (IF firstRun = "buildErr" THEN "build" ELSE "deploy")
    /\ ticks = 0
    /\ tk = NoTick
    /\ nBuilds = 1
    /\ nDeploys = (IF firstRun = "deployErr" THEN 1 ELSE 0)
    /\ ~logger.started
    /\ ~pfStarted

\* the first build succeeded, the first deploy failed and Dev has returned
FirstDeployFailed ==
  /\ firstRun = "deployErr"
  /\ devRet = Returned("exiting dev mode because the first deploy failed", "deploy")
  /\ builds # <<>>

\* C2: after a first run without error, a build error or a deploy error of a
\* later tick is dropped: onChange returns nil, Dev never returns that error,
\* and the poll loop is back at its select, from where the next tick starts
\* (or has returned nil there because the context was cancelled).
LaterErrorsAreDropped ==
  /\ firstRun = "ok" => devRet.cause \notin {"build", "deploy"}
  /\ tk.outcome \in {"buildErr", "deployErr"} =>
       /\ firstRun = "ok"
       /\ tk.ret = "nil"
       /\ \/ pc = "select" /\ devRet = Running
          \/ pc = "returned" /\ devRet = Returned("nil", "nil") /\ ctxDone

\* a tick has started after a tick whose deploy failed
TickAfterFailedDeploy ==
  /\ tk.before = "deployErr"
  /\ tk.n = 2
  /\ pc = "stat"
  /\ devRet = Running

\* C3: in a tick that builds, the list handed to the deployer is r.builds
\* before the tick overwritten, by image name, with the results of the tick's
\* build: every image name of either list once, with the new tag when the image
\* was rebuilt in the tick and with its prior tag when it was not.
DeployInputIsMerge ==
  (Len(tk.calls) = 2) =>
    LET arg == tk.calls[2].arg
    IN  /\ TickOps = <<"build", "deploy">>
        /\ Names(arg) = Names(tk.prev) \cup Names(tk.bRes)
        /\ \A i, j \in 1..Len(arg) : arg[i].ImageName = arg[j].ImageName => i = j
        /\ \A i \in 1..Len(arg) :
             IF arg[i].ImageName \in Names(tk.bRes)
             THEN arg[i] \in Range(tk.bRes)
             ELSE arg[i] \in Range(tk.prev)
        /\ builds = arg

\* web:1 and db:1 were built, a tick rebuilt web alone and deployed web:2, db:1
RebuiltOneOfTwo ==
  /\ Len(tk.calls) = 2
  /\ tk.calls[1].arg = <<1>>
  /\ Range(tk.prev) = {[ImageName |-> "web", Tag |-> <<"web", 1>>],
                       [ImageName |-> "db", Tag |-> <<"db", 1>>]}
  /\ Range(tk.calls[2].arg) = {[ImageName |-> "web", Tag |-> <<"web", 2>>],
                               [ImageName |-> "db", Tag |-> <<"db", 1>>]}

\* C4: the builder is called in a tick with exactly the artifacts whose change
\* handler called changes.Add in that tick, each once: none that did not
\* change, none whose handler synced, none of an earlier tick.
BuilderGetsTheDirtyArtifacts ==
  \A i \in 1..Len(tk.calls) :
    tk.calls[i].op = "build" =>
      /\ Range(tk.calls[i].arg) = tk.dirtied
      /\ NoRepeat(tk.calls[i].arg)
      /\ Range(tk.calls[i].arg) \cap tk.synced = {}
      /\ \A a \in tk.dirtied : \E j \in 1..Len(tk.fired) :
           Fired(j).kind = "artifact" /\ Fired(j).art = a

\* the second tick builds db alone, after a first tick that rebuilt web alone
BuildsOnlyThisTicksArtifact ==
  /\ tk.n = 2
  /\ tk.before = "ok"
  /\ [ImageName |-> "web", Tag |-> <<"web", 2>>] \in Range(tk.prev)
  /\ TickOps = <<"build">>
  /\ tk.calls[1].arg = <<2>>

\* C5: onChange takes the first case that applies among reload, dirty
\* artifacts, redeploy: with needsReload no build and no deploy; else with
\* dirty artifacts one build and then at most one deploy, whether or not
\* needsRedeploy is set; else with needsRedeploy one deploy and no build; else
\* nothing.
OnTickPriority ==
  tk.ran =>
    IF tk.seen.needsReload THEN TickOps = <<>>
    ELSE IF Len(tk.seen.dirtyArtifacts) > 0 THEN
      /\ TickOps \in {<<"build">>, <<"build", "deploy">>}
      /\ tk.outcome = "ok" => TickOps = <<"build", "deploy">>
    ELSE IF tk.seen.needsRedeploy THEN TickOps = <<"deploy">>
    ELSE TickOps = <<>>

\* a tick with a dirty artifact and needsRedeploy has built and deployed once
BuiltWhileRedeployWasSet ==
  /\ tk.ran
  /\ tk.seen.needsRedeploy
  /\ Len(tk.seen.dirtyArtifacts) > 0
  /\ tk.outcome = "ok"
  /\ TickOps = <<"build", "deploy">>

\* the handler of the configuration file has fired in the tick
ConfigFired == \E i \in 1..Len(tk.fired) : Fired(i).kind = "config"

\* C6: when the handler of the configuration file fires in a tick, the
\* onChange of that tick stops the log aggregator and returns
\* ErrorConfigurationChanged without a build or a deploy; Run starts no
\* further tick, and Dev returns an error whose cause is that sentinel.
ReloadEndsTheSession ==
  ConfigFired =>
    \/ pc = "onTick" /\ ~tk.ran /\ changed.needsReload
    \/ /\ pc = "returned"
       /\ tk.ran
       /\ tk.seen.needsReload
       /\ logger.stopped
       /\ tk.ret = "configuration changed"
       /\ tk.calls = <<>>
       /\ devRet = Returned("calling final callback", "configuration changed")
       /\ ticks = tk.n

\* the configuration file changed together with the file of an artifact, and
\* Dev has returned the sentinel
ReloadedWithDirtyArtifact ==
  /\ ConfigFired
  /\ tk.dirtied # {}
  /\ pc = "returned"
  /\ devRet.cause = "configuration changed"

\* the path f matches at least one of the patterns
MatchesSome(patterns, f) ==
  \E i \in 1..Len(patterns) : filepathMatch(patterns[i], f) = "true"

\* the path f matches none of the patterns, all of them well-formed
MatchesNone(patterns, f) ==
  \A i \in 1..Len(patterns) : filepathMatch(patterns[i], f) = "false"

\* the syncer was called in the tick for the image of artifact a
SyncerCalledFor(a) ==
  \E i \in 1..Len(tk.syncCalls) : tk.syncCalls[i].image = ImageName[a]

\* C7: when the handler of an artifact with sync patterns fires with an event
\* whose every path matches at least one of the patterns, the syncer is called
\* for the artifact's image and the artifact does not become dirty in the tick.
\* Does not hold: match asks every path to match every pattern.
SyncWhenEveryPathMatchesSomePattern ==
  \A i \in 1..Len(tk.fired) :
    LET c == Fired(i)
        e == tk.fired[i].e
    IN  ( /\ c.kind = "artifact"
          /\ cfg.sync[c.art] # <<>>
          /\ \A f \in PathsOf(e) : MatchesSome(cfg.sync[c.art], f) ) =>
          /\ SyncerCalledFor(c.art)
          /\ c.art \notin tk.dirtied

\* C8: when the handler of an artifact without sync patterns fires, or fires
\* with an event of which some path matches none of the patterns, the artifact
\* becomes dirty in the tick and the syncer is not called for its image.
\* Does not hold: match accepts every path when there is no pattern.
DirtyWithoutSyncPatterns ==
  \A i \in 1..Len(tk.fired) :
    LET c == Fired(i)
        e == tk.fired[i].e
    IN  ( /\ c.kind = "artifact"
          /\ \/ cfg.sync[c.art] = <<>>
             \/ \E f \in PathsOf(e) : MatchesNone(cfg.sync[c.art], f) ) =>
          /\ c.art \in tk.dirtied
          /\ ~SyncerCalledFor(c.art)

\* every handler that has fired in the tick is the handler of an artifact, and
\* it has synced
OnlySyncsFired ==
  /\ tk.fired # <<>>
  /\ \A i \in 1..Len(tk.fired) :
       Fired(i).kind = "artifact" /\ Fired(i).art \in tk.synced

\* C9: in a tick in which only handlers of artifacts fired and all of them
\* synced, every handler has called the syncer (copy of the added and modified
\* paths, then delete of the deleted paths) by the time onChange starts, and
\* onChange calls neither the builder nor the deployer, returns nil and leaves
\* r.builds as it was before the tick.
SyncOnlyTickBuildsNothing ==
  OnlySyncsFired =>
    /\ \A i \in 1..Len(tk.fired) :
         LET e == tk.fired[i].e
             image == ImageName[Fired(i).art]
         IN  \E j \in 1..(Len(tk.syncCalls) - 1) :
               /\ tk.syncCalls[j] =
                    [op |-> "copy", image |-> image, files |-> e.Added \o e.Modified]
               /\ tk.syncCalls[j + 1] =
                    [op |-> "delete", image |-> image, files |-> e.Deleted]
    /\ tk.dirtied = {}
    /\ tk.calls = <<>>
    /\ builds = tk.prev
    /\ tk.ran => tk.seen = NoChanges /\ tk.outcome = "ok" /\ tk.ret = "nil"
    /\ pc \in {"stat", "onTick", "select", "returned"}

\* a tick in which a.js was rewritten and synced has ended, and Dev waits for
\* the next tick
SyncedAndWaiting ==
  /\ OnlySyncsFired
  /\ tk.ran
  /\ pc = "select"
  /\ \E j \in 1..Len(tk.syncCalls) :
       tk.syncCalls[j] = [op |-> "copy", image |-> "web", files |-> <<"a.js">>]

(***************************************************************************)
(* The properties of the port-forwarder.                                   *)
(***************************************************************************)
\* the key under which the entry id is stored
EntryKey(id) == PodPorts[EntryPod(id)][id[2]]

\* the entries for the key k whose kubectl process is alive
AliveFor(k) == {id \in Stored : EntryKey(id) = k /\ Entry(id).proc = "alive"}

\* C10: in every state, at most one kubectl port-forward process is alive for
\* each key. Does not hold: portForwardPod forwards whatever the comparison
\* of the resource versions says, and stop does not wait for the process.
AtMostOneForwardPerKey == \A k \in Keys : Cardinality(AliveFor(k)) <= 1

\* C11: whenever the entry stored under a key is replaced by another entry,
\* the resource version of the new entry is greater than that of the entry it
\* replaces. Does not hold: forward stores the entry whatever the comparison of
\* the resource versions said.
ReplacedByNewerVersion ==
  [][\A k \in Keys :
       (forwardedPods[k] # None /\ forwardedPods'[k] # forwardedPods[k]) =>
         gor'[forwardedPods'[k][1]].resourceVersion > gor'[forwardedPods[k][1]].resourceVersion]_vars

\* C12: when Start sees the context cancelled and runs cleanupPorts, every
\* entry of the table whose process is running is signalled. Does not hold:
\* the callback that cleanupPorts gives to Range returns false, which ends the
\* iteration after the first entry.
CleanupSignalsEveryEntry ==
  [][(pfMain = "running" /\ pfMain' = "cleaned") =>
       \A k \in Keys :
         LET id == forwardedPods[k]
         IN  (id # None /\ entries[id[1]][id[2]].proc = "alive") =>
               entries'[id[1]][id[2]].signalled]_vars

(***************************************************************************)
(* The properties of the manifest transformer.                             *)
(***************************************************************************)
\* the concatenation of the sequences of the sequence ss
RECURSIVE Concat(_)
Concat(ss) == IF ss = <<>> THEN <<>> ELSE Head(ss) \o Concat(Tail(ss))

\* the values under the key image in a document, in the order of the document
RECURSIVE ImageValues(_)
ImageValues(n) ==
  CASE n.t = "seq" -> Concat([i \in 1..Len(n.c) |-> ImageValues(n.c[i])])
    [] n.t = "map" ->
         Concat([i \in 1..Len(n.c) |->
                   IF n.c[i].k = StrNode("image") THEN <<n.c[i].val>>
                   ELSE ImageValues(n.c[i].val)])
    [] OTHER -> <<>>

\* the values under the key image in a manifest list, the keys of every
\* mapping taken in the order in which yaml.Marshal writes them
ImagesOf(l) == Concat([i \in 1..Len(l) |-> ImageValues(Sorted(l[i]))])

\* the value that the claim expects for the image value val
ExpectedImage(val, bs) ==
  LET parsed == ParseReference[val.s]
  IN  IF /\ ~parsed.err
         /\ ~parsed.FullyQualified
         /\ \E i \in 1..Len(bs) : bs[i].ImageName = parsed.BaseName
      THEN StrNode((CHOOSE b \in Range(bs) : b.ImageName = parsed.BaseName).Tag)
      ELSE val

\* C13: after a transformation that returns, every image value that was a
\* reference not fully qualified with the base name of a build result is that
\* result's tag, and every other image value is as it was in the input.
ImageValuesRewritten ==
  mf.out.status = "ok" =>
    LET ins == ImagesOf(mf.manifests)
        outs == ImagesOf(mf.out.out)
    IN  /\ Len(outs) = Len(ins)
        /\ \A i \in 1..Len(ins) : outs[i] = ExpectedImage(ins[i], mf.builds)

\* a transformation has rewritten web:latest, kept the reference with a digest
\* and kept db, which is not among the build results
RewroteSomeKeptOthers ==
  /\ mf.out.status = "ok"
  /\ mf.builds = <<[ImageName |-> "web", Tag |-> "web:1"]>>
  /\ ImagesOf(mf.manifests) =
       <<StrNode("web:latest"), StrNode("gcr.io/other@sha256:0a"), StrNode("db")>>
  /\ ImagesOf(mf.out.out) =
       <<StrNode("web:1"), StrNode("gcr.io/other@sha256:0a"), StrNode("db")>>

\* every tag of the build results is a fully qualified reference
TagsFullyQualified ==
  \A i \in 1..Len(mf.builds) :
    /\ ~ParseReference[mf.builds[i].Tag].err
    /\ ParseReference[mf.builds[i].Tag].FullyQualified

\* C14, as stated: the transformer applied to its own output with the same
\* build results returns that output again, for every manifest list and every
\* list of build results. Does not hold when a tag is itself a reference that
\* is not fully qualified and names another image of the results.
TransformIdempotent == mf.pc = "done" => mf.again = mf.out

\* C14, amended: the transformer applied to its own output with the same build
\* results returns that output again, provided every tag of the build results
\* is fully qualified.
IdempotentWithQualifiedTags ==
  (mf.pc = "done" /\ TagsFullyQualified) => mf.again = mf.out

\* the transformer has run twice with fully qualified tags on documents that
\* it rewrote and reordered the first time
TransformedTwice ==
  /\ mf.pc = "done"
  /\ TagsFullyQualified
  /\ Len(mf.builds) = 2
  /\ Len(mf.out.out) = 2
  /\ mf.out.out # mf.manifests
  /\ ImagesOf(mf.out.out) # ImagesOf(mf.manifests)

\* the documents of l that are not empty
NonEmptyDocs(l) == SelectSeq(l, LAMBDA d : d # EmptyDoc /\ d # MapNode(<<>>))

\* C15: the transformer returns no error and does not abort, whatever the
\* shape of the manifests, and emits every document that is not empty. Does
\* not hold: an error of yaml.Unmarshal is returned, and the type assertions
\* of recursiveReplaceImage panic on a key or an image value that is not a
\* string.
TransformNeverFails ==
  mf.pc # "start" =>
    /\ mf.out.status = "ok"
    /\ Len(mf.out.out) = Len(NonEmptyDocs(mf.manifests))

(***************************************************************************)
(* More properties of the dev session.                                     *)
(***************************************************************************)
\* the tick has looked at every registered component
AllComponentsProcessed == tk.n > 0 /\ compIdx > Len(watchList)

HandlerErrors == {"checking sync files", "copying files", "deleting files"}

\* C17: an error of stat in a tick ends Run, and so Dev, with an error, before
\* the on-tick callback; an error of a change handler never ends Run: the tick
\* goes through the remaining components and the on-tick callback, and Dev
\* never returns that error.
ListingErrorEndsRun ==
  /\ tk.statErr =>
       /\ pc = "returned"
       /\ devRet = Returned("listing files", "listing files")
       /\ tk.runs = 0
  /\ devRet.cause \notin HandlerErrors
  /\ \A i \in 1..Len(tk.fired) :
       (tk.fired[i].err # "nil" /\ ~tk.statErr /\ pc # "stat") =>
         /\ tk.fired[i].err \in HandlerErrors
         /\ AllComponentsProcessed
         /\ pc = "onTick" \/ tk.runs = 1
         /\ pc = "returned" => devRet.cause \in {"nil", "configuration changed"}

\* a.js was rewritten before each of two ticks of a session whose sync pattern
\* is malformed: the handler failed in both, and Dev waits for the next tick
HandlerFailedInTwoTicks ==
  /\ tk.n = 2
  /\ tk.before = "ok"
  /\ fs["a.js"] = 3
  /\ Len(tk.fired) = 1
  /\ tk.fired[1].err = "checking sync files"
  /\ pc = "select"
  /\ devRet = Running

\* C18: a tag is in the image list only after a deploy of it has succeeded:
\* not while the deploy that follows its build is running, and not after that
\* deploy has failed. Does not hold: updateBuiltImages adds the tags of a build
\* before r.Deploy is called.
TagsListedAfterDeploy ==
  /\ pc = "firstDeploy" \/ firstRun = "deployErr" => imageList = {}
  /\ (pc = "deploying" \/ tk.outcome = "deployErr") =>
       \A i \in 1..Len(tk.bRes) : tk.bRes[i].Tag \notin imageList

\* C19: in a tick, the log aggregator is muted whenever a build or a deploy is
\* running, and it is unmuted at the end of a tick whose build and deploy (or
\* whose deploy alone) succeeded.
MutedWhileBuilding ==
  /\ pc \in {"building", "deploying"} => tk.n > 0 /\ tk.ran /\ logger.muted
  /\ (tk.calls # <<>> /\ tk.outcome = "ok") =>
       /\ pc \in {"select", "returned"}
       /\ ~logger.muted

\* a tick has built and deployed without error after a tick whose build
\* failed, and the log aggregator is unmuted
UnmutedAfterGoodTick ==
  /\ tk.before = "buildErr"
  /\ TickOps = <<"build", "deploy">>
  /\ tk.outcome = "ok"
  /\ ~logger.muted

(***************************************************************************)
(* The properties of run-once mode.                                        *)
(***************************************************************************)
RunReturned == devRet.state = "returned"

FiredArtifacts ==
  {Fired(i).art : i \in {j \in 1..Len(tk.fired) : Fired(j).kind = "artifact"}}

OnTickOutcomes == {"ok", "buildErr", "deployErr", "reload"}

\* C21: whenever an on-tick callback has returned, with any of its outcomes
\* (ok, build error, deploy error, reload), the change accumulator is empty:
\* no dirty artifact, needsRedeploy and needsReload false; and between two
\* ticks it is empty as well, so that the builder of a tick, also of a tick
\* after a failed build, is only given artifacts whose files changed in that
\* very tick.
AccumulatorEmptyAfterOnTick ==
  /\ (tk.outcome \in OnTickOutcomes) =>
       /\ changed = NoChanges
       /\ changed.dirtyArtifacts = <<>>
       /\ ~changed.needsRedeploy /\ ~changed.needsReload
  /\ (pc = "select") => changed = NoChanges
  /\ \A i \in 1..Len(tk.calls) :
       tk.calls[i].op = "build" => Range(tk.calls[i].arg) \subseteq FiredArtifacts

\* the build of the first tick failed after a change of the first artifact
\* alone; the second tick, after a change of the second artifact, has built
\* the second artifact alone
FailedBuildNotRepeated ==
  /\ tk.n = 2
  /\ tk.before = "buildErr"
  /\ fs["a.js"] = 1 /\ fs["b.js"] = 2 /\ fs["c.js"] = 2
  /\ tk.outcome \in OnTickOutcomes
  /\ tk.calls # <<>>
  /\ tk.calls[1] = [op |-> "build", arg |-> <<2>>]
  /\ changed = NoChanges

\* C22: a tick whose build has failed has called the builder and nothing
\* else, in particular not the deployer, and the build table r.builds and the
\* image list are what they were when the tick started.
FailedBuildChangesNothing ==
  (tk.n > 0 /\ tk.outcome = "buildErr") =>
    /\ TickOps = <<"build">>
    /\ builds = tk.prev
    /\ imageList = tk.prevImages

\* the first tick rebuilt web as web:2 and deployed it; the build of the
\* second tick has failed, and web:2 is still in the table and in the image
\* list
SecondBuildFailed ==
  /\ tk.n = 2
  /\ tk.outcome = "buildErr"
  /\ tk.before = "ok"
  /\ [ImageName |-> "web", Tag |-> <<"web", 2>>] \in Range(builds)
  /\ <<"web", 2>> \in imageList
  /\ pc = "select"

\* the image name of artifact a has one of the filter's expressions in it
Selected(a) ==
  \E i \in 1..Len(cfg.watch) :
    LET name == Chars[ImageName[a]]
        expr == Chars[cfg.watch[i]]
    IN  \E k \in 1..Len(name) :
          /\ k + Len(expr) - 1 <= Len(name)
          /\ \A j \in 1..Len(expr) : name[k + j - 1] = expr[j]

\* the artifacts that have a component in the watch list
Registered ==
  {watchList[i].art : i \in {j \in 1..Len(watchList) : watchList[j].kind = "artifact"}}

\* C23: once Dev has gone past an artifact in its registration loop, the
\* artifact is in the watch list iff the watch filter is empty or the
\* artifact's image name contains one of the filter's expressions; the first
\* build builds every artifact, filtered out or not, and the first deploy
\* follows it; and an artifact that is filtered out is never in
\* dirtyArtifacts nor in the input of a tick's build.
WatchFilter ==
  /\ \A a \in Artifacts :
       a < regIdx => ((a \in Registered) <=> (cfg.watch = <<>> \/ Selected(a)))
  /\ (pc = "firstDeploy" \/ firstRun \in {"ok", "deployErr"}) =>
       Names(builds) = Range(ImageName)
  /\ (firstRun \in {"ok", "deployErr"}) => nDeploys >= 1
  /\ \A a \in Artifacts :
       (cfg.watch # <<>> /\ ~Selected(a)) =>
         /\ a \notin Range(changed.dirtyArtifacts)
         /\ a \notin Range(tk.seen.dirtyArtifacts)
         /\ \A i \in 1..Len(tk.calls) :
              tk.calls[i].op = "build" => a \notin Range(tk.calls[i].arg)

\* with the filter "js", "db", web was built and deployed by the first run;
\* then a file of web and the file of db have changed, and the tick has
\* built db alone
FilteredOutNotRebuilt ==
  /\ cfg.watch = <<"js", "db">>
  /\ firstRun = "ok"
  /\ [ImageName |-> "web", Tag |-> <<"web", 1>>] \in Range(builds)
  /\ fs["b.js"] = 2 /\ fs["c.js"] = 2
  /\ tk.n = 1
  /\ tk.calls # <<>>
  /\ tk.calls[1] = [op |-> "build", arg |-> <<2>>]
  /\ pc = "select"

(***************************************************************************)
(* The properties of the labeler.                                          *)
(***************************************************************************)
\* the labeler is through with object o
LabelerPast(o) == lb.pc = "done" \/ (lb.pc = "loop" /\ lb.res > o)

\* C24: the labeler calls the update of an object at most 3 times; only the
\* last call for an object can be one without error, so the labeler stops at
\* the first update that succeeds; when it is through with an object, either
\* the last update succeeded or 3 updates failed and the object was given up
\* with a warning; and giving an object up does not end the labeling: the
\* labeler is only done when it is through with every object.
LabelRetries ==
  lb.pc \in {"loop", "done"} =>
    /\ \A o \in 1..Len(lb.kinds) :
         LET a == lb.att[o]
         IN  /\ Len(a) <= 3
             /\ \A k \in 1..(Len(a) - 1) : a[k] = "err"
             /\ LabelerPast(o) =>
                  \/ Len(a) >= 1 /\ a[Len(a)] = "nil" /\ o \notin lb.warned
                  \/ a = <<"err", "err", "err">> /\ o \in lb.warned
             /\ (lb.pc = "loop" /\ lb.res < o) => a = <<>>
    /\ (lb.pc = "loop") =>
         /\ lb.res \in 1..Len(lb.kinds)
         /\ Len(lb.att[lb.res]) = lb.i
         /\ lb.i < 3

\* of three objects the first was given up after 3 failed updates, the
\* second was labelled at its second update and the third at its first
GaveUpFirstLabelledRest ==
  /\ lb.pc = "done"
  /\ Len(lb.kinds) = 3
  /\ lb.att = <<<<"err", "err", "err">>, <<"err", "nil">>, <<"nil">>>>
  /\ lb.warned = {1}

\* the tick, if any, has run to its end: every component was looked at, and
\* if a handler fired the on-tick callback has returned
TickComplete ==
  \/ tk.n = 0
  \/ /\ compIdx > Len(watchList)
     /\ tk.fired # <<>> => tk.outcome \in {"ok", "buildErr", "deployErr"}
     /\ (tk.outcome = "ok" /\ tk.seen.dirtyArtifacts # <<>>) => TickOps = <<"build", "deploy">>
     /\ (tk.outcome = "ok" /\ tk.seen.dirtyArtifacts = <<>> /\ tk.seen.needsRedeploy) =>
          TickOps = <<"deploy">>

\* Dev has returned because of the cancellation
ReturnedNil == devRet = Returned("nil", "nil")

\* C25 as stated: once the context is cancelled, Run and Dev return without
\* an error.
CancelledReturnsNil ==
  (ctxDone /\ devRet.state = "returned") => devRet.err = "nil"

ReturnedOnCancel == ReturnedNil => (ctxDone /\ pc = "returned" /\ TickComplete)

\* C25, amended: Run returns nil only when the context is cancelled and only
\* between two ticks, the tick that was under way at the cancellation having
\* run to its end; once the context is cancelled Dev eventually returns; and
\* what it returns is nil unless a tick that ran on after the cancellation
\* ended Run itself, with the error of a stat or with the error of the
\* on-tick callback (the reload).
CancelBetweenTicks ==
  /\ []ReturnedOnCancel
  /\ []((devRet.state = "returned" /\ ctxDone) =>
          devRet.err \in {"nil", "listing files", "calling final callback"})
  /\ (ctxDone ~> devRet.state = "returned")

\* the context was cancelled while the second tick was under way (a tick
\* that builds and deploys); the tick ran to its end and Dev then returned nil
CancelledWhileBuilding ==
  /\ ReturnedNil
  /\ tk.n = 2
  /\ tk.cancelled
  /\ TickOps = <<"build", "deploy">>
  /\ tk.outcome = "ok"

\* the place of a component in the order in which Dev registers: the
\* artifacts in list order, the deployer, the configuration file
RegistrationRank(c) ==
  IF c.kind = "artifact" THEN c.art
  ELSE IF c.kind = "deployer" THEN Len(ImageName) + 1
  ELSE Len(ImageName) + 2

DeployerFired == \E i \in 1..Len(tk.fired) : Fired(i).kind = "deployer"

\* C29: the watch list holds the components in the order artifacts (in list
\* order), deployer, configuration file; the handlers of a tick fire in the
\* order of the watch list, each component at most once; and when the
\* on-tick callback has started, the tick has looked at every component, so
\* that the accumulator which the callback read holds what all the handlers
\* of the tick have put there.
HandlersInOrderBeforeOnTick ==
  /\ \A i, j \in 1..Len(watchList) :
       i < j => RegistrationRank(watchList[i]) < RegistrationRank(watchList[j])
  /\ \A i, j \in 1..Len(tk.fired) :
       i < j => tk.fired[i].idx < tk.fired[j].idx
  /\ (tk.n > 0 /\ tk.ran) =>
       /\ compIdx > Len(watchList)
       /\ Range(tk.seen.dirtyArtifacts) = tk.dirtied
       /\ tk.seen.needsRedeploy <=> DeployerFired
       /\ tk.seen.needsReload <=> ConfigFired

\* in one tick the handler of the second artifact fired and then the handler
\* of the deployer; the on-tick callback has read both effects
ArtifactThenDeployerFired ==
  /\ Len(tk.fired) = 2
  /\ Fired(1).kind = "artifact" /\ Fired(1).art = 2
  /\ Fired(2).kind = "deployer"
  /\ tk.ran
  /\ tk.seen = [dirtyArtifacts |-> <<2>>, needsRedeploy |-> TRUE, needsReload |-> FALSE]

\* the tick has looked at every component and no stat has failed
TickWentThrough == tk.n > 0 /\ compIdx > Len(watchList) /\ ~tk.statErr

\* the places in tk.fired of the component at index c of the watch list
FiredAt(c) == {i \in 1..Len(tk.fired) : tk.fired[i].idx = c}

\* C30 as stated: in a tick that went through, the handler of every
\* component of which a file has changed since the tick before has been
\* invoked exactly once.
ChangedFiresOnce ==
  TickWentThrough =>
    \A c \in 1..Len(watchList) :
      (DepsOf(watchList[c]) \cap tk.touched # {}) => Cardinality(FiredAt(c)) = 1

\* no file has changed since the tick: the files are those that the tick saw
FilesAsInTick == tk.pending = {}

\* what a path is in a snapshot and in the files: absent, or its time
InSnapshot(snap, p) == snap[p]

OnDisk(p) == IF fs[p] > 0 THEN fs[p] ELSE 0

\* C30, amended: in a tick that went through, the handler of a component has
\* been invoked at most once; it has been invoked iff the files of the
\* component differ from the snapshot of the tick before, whatever the number
\* of changes in between (none, if no file of the component has changed; none
\* as well if the changes have cancelled each other out); the event it got
\* is the diff between that snapshot and the files: added what was absent and
\* is there, deleted what was there and is absent, modified what is there
\* with another time; and afterwards the snapshot of the component is the
\* state of the files, else the snapshot of before.
CoalescedToNetDiff ==
  (TickWentThrough /\ FilesAsInTick) =>
    \A c \in 1..Len(watchList) :
      LET deps == DepsOf(watchList[c])
          old == tk.states[c]
          differs == \E p \in deps : InSnapshot(old, p) # OnDisk(p)
      IN  /\ Cardinality(FiredAt(c)) <= 1
          /\ (FiredAt(c) # {}) <=> differs
          /\ (deps \cap tk.touched = {}) => FiredAt(c) = {}
          /\ \A i \in FiredAt(c) :
               /\ Range(tk.fired[i].e.Added) =
                    {p \in deps : InSnapshot(old, p) = 0 /\ OnDisk(p) # 0}
               /\ Range(tk.fired[i].e.Deleted) =
                    {p \in deps : InSnapshot(old, p) # 0 /\ OnDisk(p) = 0}
               /\ Range(tk.fired[i].e.Modified) =
                    {p \in deps : InSnapshot(old, p) # 0 /\ OnDisk(p) # 0
                                    /\ InSnapshot(old, p) # OnDisk(p)}
          /\ \A p \in deps :
               InSnapshot(watchList[c].state, p) =
                 IF differs THEN OnDisk(p) ELSE InSnapshot(old, p)

\* between two ticks a.js was written and b.js was made; the tick has invoked
\* the handler of the first artifact once, with both paths in one event, and
\* no other handler
TwoChangesOneEvent ==
  /\ TickWentThrough
  /\ tk.touched = {"a.js", "b.js"}
  /\ Len(tk.fired) = 1
  /\ tk.fired[1].idx = 1
  /\ tk.fired[1].e = [Added |-> <<"b.js">>, Modified |-> <<"a.js">>, Deleted |-> <<>>]
  /\ pc = "select"

(***************************************************************************)
(* More properties of the port-forwarder.                                  *)
(***************************************************************************)
\* the forwards and their processes
ForwardState == <<gor, entries, forwardedPods>>

\* C26: every goroutine that forwards a pod was started for an event of type
\* MODIFIED whose pod is selected, in phase Running and without a deletion
\* timestamp; and a step in which Start skips an event (of another type, of
\* a pod that is not selected, not Running or being deleted) starts no
\* goroutine, stores no entry and signals no process.
ForwardOnlyWhenReady ==
  /\ [](\A g \in 1..Len(gor) :
          /\ gor[g].evt.type = "MODIFIED"
          /\ gor[g].evt.selected
          /\ gor[g].evt.phase = "Running"
          /\ ~gor[g].evt.deleting)
  /\ [][pfSkipped' # pfSkipped => UNCHANGED ForwardState]_vars

\* a forward is alive for a MODIFIED event, and the event that Start saw
\* last was skipped because of its type
ForwardedOneSkippedOne ==
  /\ Len(gor) = 1
  /\ entries[1][1].proc = "alive"
  /\ pfSkipped = "type"

\* goroutine g has found under its key an entry of an older resource version
FoundOlder(g) ==
  /\ gor[g].prev # None
  /\ gor[g].resourceVersion > gor[gor[g].prev[1]].resourceVersion

\* C27: a goroutine that has found, under the key of its port, an entry of a
\* lower resource version than its event's calls forward, which stores its
\* entry and starts its process, only after the process of the entry found was
\* signalled; and a goroutine whose signal to the old process failed ends with
\* the error "terminating port-forward process" and has made no entry and
\* started no process for that key (nor for its later ports).
OldSignalledFirst ==
  \A g \in 1..Len(gor) :
    /\ (gor[g].at = "forward" /\ FoundOlder(g)) =>
         /\ Entry(gor[g].prev).signalled
         /\ entries[g][gor[g].i].proc = "none"
    /\ (gor[g].err = "terminating port-forward process") =>
         /\ gor[g].at = "done"
         /\ \A i \in gor[g].i..Len(entries[g]) : entries[g][i].proc = "none"

\* the second goroutine, for resource version 2, has signalled the process of
\* the entry of resource version 1 that is alive under its key, and is about
\* to forward
SignalledOldAboutToForward ==
  /\ Len(gor) = 2
  /\ gor[2].at = "forward"
  /\ gor[2].prev = <<1, 1>>
  /\ gor[1].resourceVersion = 1 /\ gor[2].resourceVersion = 2
  /\ entries[1][1].proc = "alive"
  /\ entries[1][1].signalled

\* the processes that goroutine g has started for the two ports of its pod
\* are both alive
BothPortsAlive(g) ==
  /\ g <= Len(entries)
  /\ Len(entries[g]) = 2
  /\ entries[g][1].proc = "alive"
  /\ entries[g][2].proc = "alive"

\* C28: when Start has started the first goroutine of the session, the table
\* being empty, for a pod with two (container, port) pairs, then eventually
\* the forwards of both ports are alive at the same time, unless a kubectl
\* fails or is terminated (the goroutine ends with an error) or the program
\* has ended.
AllPortsForwarded ==
  (Len(gor) >= 1 /\ gor[1].pod = "p1") ~>
    (BothPortsAlive(1) \/ (Len(gor) >= 1 /\ gor[1].err # "nil") \/ ~Alive)


\* every handler that has fired in the tick is the deployer's
OnlyDeployerFired ==
  /\ tk.fired # <<>>
  /\ \A i \in 1..Len(tk.fired) : Fired(i).kind = "deployer"

\* the tag that the last successful build of the image name has returned
CurrentTag(name) ==
  LET ns == {n \in 1..nextTag : <<name, n>> \in imageList}
  IN  <<name, CHOOSE n \in ns : \A m \in ns : m <= n>>

\* C31: a tick in which only the handler of the deployer's dependencies has
\* fired calls the builder not at all and the deployer once, with the whole
\* latest-known table: every image of the session once, with the tag of its
\* last successful build.
RedeployOnlyTick ==
  (OnlyDeployerFired /\ tk.ran) =>
    /\ TickOps = <<"deploy">>
    /\ tk.seen = [NoChanges EXCEPT !.needsRedeploy = TRUE]
    /\ LET arg == tk.calls[1].arg
       IN  /\ arg = tk.prev
           /\ arg = builds
           /\ Names(arg) = Range(ImageName)
           /\ Len(arg) = Len(ImageName)
           /\ \A i \in 1..Len(arg) : arg[i].Tag = CurrentTag(arg[i].ImageName)

\* after a tick that rebuilt web alone, a tick in which the deployer's
\* dependencies alone changed has deployed web:2 and db:1
RedeployedAfterRebuild ==
  /\ tk.n = 2
  /\ OnlyDeployerFired
  /\ tk.outcome = "ok"
  /\ TickOps = <<"deploy">>
  /\ Range(tk.calls[1].arg) = {[ImageName |-> "web", Tag |-> <<"web", 2>>],
                               [ImageName |-> "db", Tag |-> <<"db", 1>>]}


\* no two builds of the list have the same image name
UniqueNames(bs) == \A i, j \in 1..Len(bs) : bs[i].ImageName = bs[j].ImageName => i = j

\* C32: after the first run and after every tick, r.builds has at most one
\* entry for an image name, given that the result of every call of the
\* builder has at most one entry for an image name.
OneEntryPerImage ==
  UniqueNames(tk.bRes) =>
    /\ UniqueNames(builds)
    /\ UniqueNames(tk.prev)
    /\ \A i \in 1..Len(tk.calls) : tk.calls[i].op = "deploy" => UniqueNames(tk.calls[i].arg)

\* web was rebuilt in the first tick and again in the second one: r.builds is
\* web:3, db:1
RebuiltSameImageTwice ==
  /\ tk.n = 2
  /\ tk.before = "ok"
  /\ tk.outcome = "ok"
  /\ tk.prev = <<[ImageName |-> "web", Tag |-> <<"web", 2>>],
                 [ImageName |-> "db", Tag |-> <<"db", 1>>]>>
  /\ tk.bRes = <<[ImageName |-> "web", Tag |-> <<"web", 3>>]>>
  /\ builds = <<[ImageName |-> "web", Tag |-> <<"web", 3>>],
                [ImageName |-> "db", Tag |-> <<"db", 1>>]>>


\* what replaceImages makes of one document that is not empty
Transformed(doc, bs) == Marshal(recursiveReplaceImage(Unmarshal(doc).m, Replacements(bs)))

\* the documents written in a stream, in order, but for those that are empty
WrittenDocs(stream) == SelectSeq(stream, LAMBDA x : x # Sep /\ x # MapNode(<<>>))

\* C33: a transformer that returns without error emits the documents that are
\* not empty, and no other, each transformed and each once, in the order of
\* its input (the list it is given and, when the list was read from a stream,
\* the stream); the empty documents are dropped.
EmptyDocumentsElided ==
  mf.out.status = "ok" =>
    LET kept == NonEmptyDocs(mf.manifests)
        out == mf.out.out
    IN  /\ Len(out) = Len(kept)
        /\ \A i \in 1..Len(out) : out[i] = Transformed(kept[i], mf.builds)
        /\ \A i \in 1..Len(out) : out[i] # EmptyDoc /\ out[i] # MapNode(<<>>)
        /\ mf.fromReader => kept = WrittenDocs(mf.stream)

\* of the three parts of a stream the transformer has dropped the empty one in
\* the middle and emitted the other two in their order, the last with its
\* image replaced
DroppedTheEmptyPart ==
  /\ mf.fromReader
  /\ mf.stream = <<MapNode(<<Pair(StrNode("image"), StrNode("db")),
                             Pair(StrNode("name"), IntNode("1"))>>),
                   Sep, Sep,
                   MapNode(<<Pair(StrNode("image"), StrNode("web"))>>)>>
  /\ Len(mf.manifests) = 3
  /\ mf.manifests[2] = EmptyDoc
  /\ mf.builds = <<[ImageName |-> "web", Tag |-> "web:1"]>>
  /\ mf.out.status = "ok"
  /\ Len(mf.out.out) = 2
  /\ mf.out.out[2] = MapNode(<<Pair(StrNode("image"), StrNode("web:1"))>>)


(***************************************************************************)
(* More properties of the port-forwarder.                                  *)
(***************************************************************************)
\* C34: stop is never executed on an entry whose kubectl process has not been
\* started: while the context is not cancelled (cleanupPorts does not run), no
\* step of a portForwardPod goroutine dereferences the nil cmd.Process of the
\* entry that it has loaded. Does not hold: forward stores the entry before
\* util.RunCmdOut starts the process, and nothing keeps another goroutine
\* from loading and stopping it in between.
StopOnlyAfterStart ==
  [][(~pfCtxDone /\ pfMain # "panic") => pfMain' # "panic"]_vars


\* C35: every kubectl process that is alive and has not been signalled belongs
\* to the entry that the table holds under its key, so that an entry is not
\* overwritten while its process is alive and unsignalled. Does not hold:
\* forward stores its entry unconditionally, also when portForwardPod found an
\* entry of the same or of a newer resource version and did not stop it.
AliveForwardIsInTable ==
  \A id \in Stored :
    (Entry(id).proc = "alive" /\ ~Entry(id).signalled) => forwardedPods[EntryKey(id)] = id


(***************************************************************************)
(* More properties of the dev session.                                     *)
(***************************************************************************)
\* C36: a component whose change handler has returned an error in a tick is
\* counted as changed and has its snapshot replaced all the same: the on-tick
\* callback runs in that tick, the artifact is not among the dirty artifacts
\* (it is not handed to the builder), and in the next tick the handler fires
\* again only for files that have changed again since.
HandlerErrorStillCounts ==
  /\ changedCnt = Len(tk.fired)
  /\ \A i \in 1..Len(tk.fired) :
       tk.fired[i].err # "nil" =>
         LET idx == tk.fired[i].idx
             c == watchList[idx]
         IN  /\ c.kind = "artifact"
             /\ c.art \notin tk.dirtied
             /\ c.art \notin Range(changed.dirtyArtifacts)
             /\ tk.ran => c.art \notin Range(tk.seen.dirtyArtifacts)
             /\ \A j \in 1..Len(tk.calls) :
                  tk.calls[j].op = "build" => c.art \notin Range(tk.calls[j].arg)
             /\ c.state # tk.states[idx]
             /\ tk.pending \cap DepsOf(c) = {} => c.state = statFiles(fs, DepsOf(c))
             /\ (TickWentThrough /\ pc # "onTick") => tk.ran
  /\ \A i \in 1..Len(tk.fired) :
       tk.fired[i].idx \in tk.prevErr =>
         /\ PathsOf(tk.fired[i].e) # {}
         /\ PathsOf(tk.fired[i].e) \subseteq tk.touched

\* the handler of an artifact failed in the first tick, whose on-tick
\* callback ran; the second tick has looked at every component and no handler
\* has fired
FailedHandlerNotCalledAgain ==
  /\ tk.n = 2
  /\ tk.prevErr # {}
  /\ tk.before = "ok"
  /\ tk.touched = {}
  /\ TickWentThrough
  /\ tk.fired = <<>>


\* the tick has ended: Run is back at its select, or has returned from there
\* or with the reload sentinel
TickEnded ==
  /\ TickWentThrough
  /\ pc \in {"select", "returned"}

\* C37 as stated: at the end of a tick the log aggregator is unmuted if and
\* only if the tick did not return the reload sentinel and had no build or
\* deploy error.
UnmutedIffTickSucceeded ==
  TickEnded => (~logger.muted <=> tk.outcome \notin {"reload", "buildErr", "deployErr"})

\* C37: at the end of a tick whose on-tick callback ran, the log aggregator
\* is unmuted if and only if the callback did not return the reload sentinel
\* and had no build or deploy error; a tick in which no handler fired leaves
\* the log aggregator as it was, so that after a failed build or deploy it
\* stays muted until the on-tick callback of a later tick ends without error.
UnmutedIffOnTickSucceeded ==
  /\ (TickEnded /\ tk.ran) =>
       (~logger.muted <=> tk.outcome \notin {"reload", "buildErr", "deployErr"})
  /\ (tk.n > 0 /\ ~tk.ran) => logger.muted = tk.wasMuted
  /\ (tk.n > 0 /\ tk.before \in {"buildErr", "deployErr"}) => tk.wasMuted

\* the build of the first tick failed; the second tick has ended without any
\* handler firing, and the log aggregator is still muted
StillMutedAfterIdleTick ==
  /\ tk.n = 2
  /\ tk.before = "buildErr"
  /\ TickEnded
  /\ tk.fired = <<>>
  /\ ~tk.ran
  /\ logger.muted


\* the arguments of the calls of the deployer in the tick
DeployArgs == {tk.calls[i].arg : i \in {j \in 1..Len(tk.calls) : tk.calls[j].op = "deploy"}}

\* C38: when the build of a tick succeeds and its deploy fails, r.builds
\* keeps the results of that build: it is the list that the failed deploy was
\* given; and the deployer of the next tick is given the new tags of every
\* image that this next tick has not rebuilt itself (all of them in a tick
\* that only redeploys).
FailedDeployKeepsNewTags ==
  /\ (tk.outcome = "deployErr" /\ tk.bRes # <<>>) =>
       /\ TickOps = <<"build", "deploy">>
       /\ builds = tk.calls[2].arg
       /\ Range(tk.bRes) \subseteq Range(builds)
       /\ Range(builds) \ Range(tk.bRes) \subseteq Range(tk.prev)
  /\ (tk.n > 0 /\ tk.before = "deployErr") =>
       /\ Range(tk.prevBRes) \subseteq Range(tk.prev)
       /\ \A arg \in DeployArgs :
            /\ \A i \in 1..Len(tk.prevBRes) :
                 \/ tk.prevBRes[i] \in Range(arg)
                 \/ tk.prevBRes[i].ImageName \in Names(tk.bRes)
            /\ tk.bRes = <<>> => arg = tk.prev

\* the first tick built web:2 and its deploy failed; the second tick, in
\* which only the deployer's dependencies changed, has deployed web:2, db:1
RedeployedTagsOfFailedDeploy ==
  /\ tk.n = 2
  /\ tk.before = "deployErr"
  /\ tk.prevBRes = <<[ImageName |-> "web", Tag |-> <<"web", 2>>]>>
  /\ TickOps = <<"deploy">>
  /\ tk.calls[1].arg = <<[ImageName |-> "web", Tag |-> <<"web", 2>>],
                         [ImageName |-> "db", Tag |-> <<"db", 1>>]>>


\* the tags of a list of builds
Tags(bs) == {bs[i].Tag : i \in 1..Len(bs)}

\* C39: in a dev session no step takes a tag out of the image list, and every
\* step in which a build succeeds (the tagger moves on) leaves the tags that
\* the build returned in the image list: the list holds every tag of every
\* successful build so far, those that a later build has superseded too.
ImageListOnlyGrows ==
  [][/\ imageList \subseteq imageList'
     /\ nextTag' # nextTag =>
          /\ {t \in Tags(builds') : t[2] = nextTag} # {}
          /\ {t \in Tags(builds') : t[2] = nextTag} \subseteq imageList'
          /\ Tags(tk'.bRes) \subseteq imageList'
          /\ imageList' = imageList \cup {t \in Tags(builds') : t[2] = nextTag}]_vars

\* web has been rebuilt twice: the table is web:3, db:1 and the image list
\* still holds web:1 and web:2
SupersededTagsListed ==
  /\ tk.n = 2
  /\ Tags(builds) = {<<"web", 3>>, <<"db", 1>>}
  /\ imageList = {<<"web", 1>>, <<"db", 1>>, <<"web", 2>>, <<"web", 3>>}


\* the kinds of the components of the watch list, in order
WatchedKinds == [i \in 1..Len(watchList) |-> watchList[i].kind]

\* Dev has returned the error of a registration
RegistrationFailed ==
  /\ devRet.state = "returned"
  /\ devRet.err \in {"watching files for artifact", "watching files for deployer",
                     "watching skaffold configuration"}

\* C40: Dev registers every component before the first build (the artifacts
\* that the filter lets through, then the deployer, then the configuration
\* file); a registration error returns with no build and no deploy attempted;
\* the log aggregator and the port-forwarder are started only after the first
\* build and the first deploy have succeeded, the port-forwarder after the
\* log aggregator, and both before the first tick.
RegisteredThenBuiltThenStarted ==
  /\ pc = "register" => nBuilds = 0 /\ nDeploys = 0 /\ firstRun = "none"
  /\ nBuilds > 0 =>
       /\ regIdx = Len(ImageName) + 3
       /\ Registered = {a \in Artifacts : cfg.watch = <<>> \/ Selected(a)}
       /\ Len(watchList) = Cardinality(Registered) + 2
       /\ WatchedKinds[Len(watchList) - 1] = "deployer"
       /\ WatchedKinds[Len(watchList)] = "config"
  /\ RegistrationFailed =>
       /\ nBuilds = 0 /\ nDeploys = 0 /\ ticks = 0
       /\ ~logger.started /\ ~pfStarted
       /\ regIdx <= Len(ImageName) + 2
  /\ logger.started => firstRun = "ok" /\ nBuilds >= 1 /\ nDeploys >= 1
  /\ pfStarted => logger.started
  /\ pc = "startLogger" => firstRun = "ok" /\ ticks = 0 /\ ~logger.started /\ ~pfStarted
  /\ ticks > 0 => logger.started /\ pfStarted /\ firstRun = "ok"

\* with web alone let through by the filter, Dev has registered web, the
\* deployer and the configuration file, has built and deployed once, has
\* started the log aggregator and the port-forwarder, and no tick has started
StartedBeforeFirstTick ==
  /\ cfg.watch = <<"eb">>
  /\ WatchedKinds = <<"artifact", "deployer", "config">>
  /\ nBuilds = 1
  /\ nDeploys = 1
  /\ logger.started
  /\ pfStarted
  /\ ticks = 0
  /\ pc = "select"

====
